---- MODULE Spec2Model ----
(***************************************************************************)
(* Model of the register-access trace analyzers of mmio-filter-scripts:    *)
(*   scripty.py   analyze_log        timeline, change lists, 0x0/0x4 pairs *)
(*   scripty2.py  analyze_registers  read-before-write, device-controlled  *)
(* Both are single forward passes over a list of entries.  One step of the *)
(* model is one iteration of the analyzer's for loop: the entry consumed   *)
(* is appended to `entries`, so a state is the analyzer's state after the  *)
(* pass over `entries`, i.e. what the function returns for that trace.     *)
(***************************************************************************)
EXTENDS Integers, Sequences, FiniteSets, TLC

\* ------------------------------------------------------------------ bounds
\* Longest trace fed to an analyzer.
MaxLen == 4
\* Longest trace of the index/data pairing scenario.
MaxPairLen == 5

\* Longest trace with an operation keyword that is neither Read nor Write.
MaxOpsLen == 3
\* Longest trace with accesses of several widths.
MaxWidthLen == 3
\* Longest trace whose analysis is written to a report.
MaxReportLen == 5
\* Most lines in a trace file.
MaxLines == 3
\* Longest trace of index and data writes whose analysis is written to a
\* report.
MaxLogReportLen == 5
\* Longest trace that switches between two indexed registers.
MaxFrameLen == 6
\* Longest opening of such a trace in which direct registers are accessed.
MaxDirectLen == 3

\* ------------------------------------------------------- program constants
\* Python's None. parse_log accepts every integer, negative ones included
\* (int('-0x1', 16) is -1), so no number can stand for None: a variable or
\* field that may hold None holds the empty tuple for None and the one-element
\* tuple Some(v) for the number (or dict) v.
None == <<>>
Some(v) == <<v>>
\* The number held by a variable that is known not to be None.
Held(optional) == optional[1]
\* The index register ("register select") offset.
IndexOffset == 0
\* The data register offset.
DataOffset == 4

\* ------------------------------------------------------------------ inputs
\* The two operations of a trace.
Ops == {"Read", "Write"}
Offsets == {IndexOffset, DataOffset, 8}
Values == {1, 2}
\* int(_, 16) accepts a sign, so a value (and with it an index) can be
\* negative.
SignedValues == {-1, 1}
Lengths == {4}

Entry(op, offset, value, length) ==
    [op |-> op, offset |-> offset, value |-> value, length |-> length]

Events == {Entry(op, offset, value, length) :
              op \in Ops, offset \in Offsets, value \in Values, length \in Lengths}

\* Writes to the index and data registers, with the values of the pairing
\* scenario (index values 5 and 6, data values 10 and 20).
PairingEvents == {Entry("Write", offset, value, 4) :
                     offset \in {IndexOffset, DataOffset}, value \in {5, 6, 10, 20}}

\* Entries whose operation is any keyword parse_log lets through: it copies
\* the first field of a line unchecked, so 'write' can reach the analyzers.
OpsEvents == {Entry(op, offset, value, 4) :
                 op \in {"Read", "Write", "write"}, offset \in Offsets,
                 value \in SignedValues}

\* Entries with accesses of two widths.
WidthEvents == {Entry(op, offset, value, length) :
                   op \in Ops, offset \in Offsets, value \in SignedValues,
                   length \in {2, 4}}

\* The two analysis scripts of the repository.
\* Reads of the data register and of two direct registers, and writes of the
\* index register.
ReportEvents ==
    {Entry("Read", offset, value, 4) :
        offset \in {DataOffset, 8, 12}, value \in SignedValues}
        \cup {Entry("Write", IndexOffset, value, 4) : value \in SignedValues}

\* A line of a trace file: whether it begins with white space, and its
\* white-space-separated fields.
Line(indent, fields) == [indent |-> indent, fields |-> fields]

\* The lines a trace file is made of: well-formed records, records with a
\* fifth field, with bare hexadecimal numbers, with a negative number, with
\* other keywords, the header and the dashed rule (plain and indented), blank
\* lines and lines whose fields are too few or not numbers.
SampleLines ==
    {Line(FALSE, <<"Read", "0x8", "0x1", "0x4">>),
     Line(FALSE, <<"Write", "0x4", "0x2", "0x4">>),
     Line(TRUE, <<"Write", "0x0", "0x2", "0x4", "extra">>),
     Line(FALSE, <<"Read", "4", "A", "10">>),
     Line(FALSE, <<"Write", "0x8", "-0x1", "0x4">>),
     Line(FALSE, <<"Foo", "0x8", "0x1", "0x4">>),
     Line(FALSE, <<"Operation", "Offset", "Value", "Length">>),
     Line(TRUE, <<"Operation", "0x8", "0x1", "0x4">>),
     Line(FALSE, <<"Operations", "0x8", "0x1", "0x4">>),
     Line(FALSE, <<"----------">>),
     Line(TRUE, <<"----", "0x8", "0x1", "0x4">>),
     Line(FALSE, <<>>),
     Line(FALSE, <<"Read", "0x8", "0xZZ", "0x4">>),
     Line(FALSE, <<"Read", "0x8", "0x1">>)}

\* The trace files: a file that does not exist, one that cannot be read, and
\* the readable files of up to `maxLines` sample lines.
Files(maxLines) ==
    {[status |-> "missing", text |-> <<>>], [status |-> "unreadable", text |-> <<>>]}
        \cup {[status |-> "ok", text |-> text] :
                 text \in UNION {[1..n -> SampleLines] : n \in 0..maxLines}}

\* Accesses of the indexed scheme: Writes that select one of two indexed
\* registers, one of which has the number of a direct offset and the other a
\* negative number; reads and a write of the data register.
FrameEvents ==
    {Entry("Write", IndexOffset, index, 4) : index \in {8, -1}}
        \cup {Entry("Read", DataOffset, value, 4) : value \in Values}
        \cup {Entry("Write", DataOffset, 1, 4)}

\* Accesses of the direct scheme: reads and a write of the direct offset that
\* has the number of an indexed register, and a write of a second direct
\* offset.
DirectFrameEvents ==
    {Entry("Read", 8, value, 4) : value \in Values}
        \cup {Entry("Write", offset, 1, 4) : offset \in {8, 12}}

Scripts == {"scripty", "scripty2"}

VARIABLES
    script,                     \* which script this run executes
    entries,                    \* the entries consumed so far, in order
    \* ---- scripty.py analyze_log
    current_state,              \* offset -> last written value, or None
    all_changes,                \* offset -> list of {index, old, new}
    pairs_0x0_0x4,              \* list of {index, reg_select, data_value, data_changed}
    last_0x0_write,             \* {index, value} of the last write to 0x0
    timeline,                   \* list of timeline entries
    \* ---- scripty2.py analyze_registers
    current_index,
    indexed_written,
    direct_written,
    read_before_write_indexed,
    read_before_write_direct,
    reported_indexed_rbw,
    reported_direct_rbw,
    indexed_state,
    direct_state,
    device_controlled_indexed,
    device_controlled_direct,
    \* ---- main and write_report of either script
    file,                       \* the trace file: its status and its lines
    pc,                         \* position in main
    log_data,                   \* the text main read from the file
    outcome,                    \* how the run ended
    console,                    \* the messages main printed
    calls,                      \* the functions main has called, in order
    report                      \* the report file: <<>> until it is written

logVars == <<current_state, all_changes, pairs_0x0_0x4, last_0x0_write, timeline>>

regVars == <<current_index, indexed_written, direct_written,
             read_before_write_indexed, read_before_write_direct,
             reported_indexed_rbw, reported_direct_rbw,
             indexed_state, direct_state,
             device_controlled_indexed, device_controlled_direct>>

driverVars == <<file, pc, log_data, outcome, console, calls, report>>

vars == <<script, entries, logVars, regVars, driverVars>>

\* ------------------------------------------------------------ dict helpers
\* d[k] = v on a Python dict.
Put(d, k, v) == [x \in (DOMAIN d) \cup {k} |-> IF x = k THEN v ELSE d[x]]

\* The empty dict.
EmptyDict == [x \in {} |-> None]

\* ------------------------------------------------- scripty.py: analyze_log
\* Mutant: the current value is reset whenever the offset is seen.
TrackCurrentAlwaysReset(cs, offset) ==
    Put(cs, offset, None)

\* if offset not in current_state: current_state[offset] = None
TrackCurrent(cs, offset) ==
    IF offset \in DOMAIN cs THEN cs ELSE Put(cs, offset, None)

\* if offset not in current_state: all_changes[offset] = []
TrackChanges(cs, ac, offset) ==
    IF offset \in DOMAIN cs THEN ac ELSE Put(ac, offset, <<>>)

\* Mutant: every Write counts as a change.
ValueChangedOnEveryWrite(old_value, value, op) ==
    op = "Write"

\* Mutant: the comparison is made for every operation.
ValueChangedOnAnyOp(old_value, value, op) ==
    old_value # Some(value)

\* value_changed = (old_value != value) if op == 'Write' else False
ValueChanged(old_value, value, op) ==
    IF op = "Write" THEN old_value # Some(value) ELSE FALSE

\* Mutant: positions counted from 1.
TimelineEntryFromOne(i, entry, old_value, value_changed) ==
    [index |-> i + 1, op |-> entry.op, offset |-> entry.offset, value |-> entry.value,
     old_value |-> old_value, changed |-> value_changed]

\* The timeline entry of the event at position i.
TimelineEntry(i, entry, old_value, value_changed) ==
    [index |-> i, op |-> entry.op, offset |-> entry.offset, value |-> entry.value,
     old_value |-> old_value, changed |-> value_changed]

\* Mutant: a change record does not carry the value it replaces.
ChangeRecordWithoutOld(i, old_value, value) ==
    [index |-> i, old |-> None, new |-> value]

\* The change record appended to all_changes[offset].
ChangeRecord(i, old_value, value) ==
    [index |-> i, old |-> old_value, new |-> value]

\* Mutant: a change list keeps only its latest record.
RecordChangeKeepingLatest(ac, i, entry, old_value, value_changed) ==
    IF entry.op = "Write" /\ value_changed
    THEN [ac EXCEPT ![entry.offset] = <<ChangeRecord(i, old_value, entry.value)>>]
    ELSE ac

\* if op == 'Write': if value_changed: all_changes[offset].append(...)
RecordChange(ac, i, entry, old_value, value_changed) ==
    IF entry.op = "Write" /\ value_changed
    THEN [ac EXCEPT ![entry.offset] = Append(@, ChangeRecord(i, old_value, entry.value))]
    ELSE ac

\* Mutant: only full-width (4 byte) Writes set the current value.
UpdateCurrentFullWidthOnly(cs, entry) ==
    IF entry.op = "Write" /\ entry.length = 4
    THEN [cs EXCEPT ![entry.offset] = Some(entry.value)] ELSE cs

\* Mutant: the current value follows Reads as well as Writes.
UpdateCurrentOnAnyOp(cs, entry) ==
    [cs EXCEPT ![entry.offset] = Some(entry.value)]

\* if op == 'Write': current_state[offset] = value
UpdateCurrent(cs, entry) ==
    IF entry.op = "Write" THEN [cs EXCEPT ![entry.offset] = Some(entry.value)] ELSE cs

\* Mutant: the first index write is kept, later ones are ignored.
UpdateIndexWriteFirstWins(last, i, entry) ==
    IF entry.op = "Write" /\ entry.offset = IndexOffset /\ last = None
    THEN Some([index |-> i, value |-> entry.value])
    ELSE last

\* if op == 'Write' and offset == 0x0: last_0x0_write = {index, value}
UpdateIndexWrite(last, i, entry) ==
    IF entry.op = "Write" /\ entry.offset = IndexOffset
    THEN Some([index |-> i, value |-> entry.value])
    ELSE last

\* Mutant: every pair is marked as a change of the data value.
PairRecordAlwaysChanged(last, i, value, value_changed) ==
    [index |-> i, reg_select |-> Held(last).value, data_value |-> value,
     data_changed |-> TRUE]

\* The pair record of a data write made under index write `last`.
PairRecord(last, i, value, value_changed) ==
    [index |-> i, reg_select |-> Held(last).value, data_value |-> value,
     data_changed |-> value_changed]

\* Mutant: Reads of the data register are paired as well.
RecordPairOnAnyOp(pairs, last, i, entry, value_changed) ==
    IF entry.offset = DataOffset /\ last # None
    THEN Append(pairs, PairRecord(last, i, entry.value, value_changed))
    ELSE pairs

\* elif offset == 0x4 and last_0x0_write is not None: pairs_0x0_0x4.append(...)
RecordPair(pairs, last, i, entry, value_changed) ==
    IF /\ entry.op = "Write"
       /\ entry.offset # IndexOffset
       /\ entry.offset = DataOffset
       /\ last # None
    THEN Append(pairs, PairRecord(last, i, entry.value, value_changed))
    ELSE pairs

\* Mutant: the index and data registers are tracked from the start.
LogInitPreTracked ==
    [current_state |-> Put(Put(EmptyDict, IndexOffset, None), DataOffset, None),
     all_changes |-> Put(Put(EmptyDict, IndexOffset, <<>>), DataOffset, <<>>),
     pairs_0x0_0x4 |-> <<>>, last_0x0_write |-> None, timeline |-> <<>>]

\* The state of analyze_log before the loop.
LogInit ==
    [current_state |-> EmptyDict, all_changes |-> EmptyDict, pairs_0x0_0x4 |-> <<>>,
     last_0x0_write |-> None, timeline |-> <<>>]

\* One iteration of the loop of analyze_log: entry is entries[i].
LogBody(st, i, entry) ==
    LET cs1 == TrackCurrent(st.current_state, entry.offset)
        ac1 == TrackChanges(st.current_state, st.all_changes, entry.offset)
        old_value == cs1[entry.offset]
        value_changed == ValueChanged(old_value, entry.value, entry.op)
    IN  [current_state  |-> UpdateCurrent(cs1, entry),
         all_changes    |-> RecordChange(ac1, i, entry, old_value, value_changed),
         pairs_0x0_0x4  |-> RecordPair(st.pairs_0x0_0x4, st.last_0x0_write, i, entry,
                                       value_changed),
         last_0x0_write |-> UpdateIndexWrite(st.last_0x0_write, i, entry),
         timeline       |-> Append(st.timeline,
                                   TimelineEntry(i, entry, old_value, value_changed))]

\* analyze_log(es): the loop run over the whole list.
RECURSIVE analyze_log(_)
analyze_log(es) ==
    IF es = <<>> THEN LogInit
    ELSE LogBody(analyze_log(SubSeq(es, 1, Len(es) - 1)), Len(es) - 1, es[Len(es)])

\* The analyzer's state as one record.
LogState ==
    [current_state |-> current_state, all_changes |-> all_changes,
     pairs_0x0_0x4 |-> pairs_0x0_0x4, last_0x0_write |-> last_0x0_write,
     timeline |-> timeline]

\* ------------------------------------------ scripty2.py: analyze_registers
\* Mutant: Reads of the index register select an index as well.
UpdateCurrentIndexOnAnyOp(ci, entry) ==
    IF entry.offset = IndexOffset THEN Some(entry.value) ELSE ci

\* if offset == 0x0: if op == 'Write': current_index = value
UpdateCurrentIndex(ci, entry) ==
    IF entry.offset = IndexOffset /\ entry.op = "Write" THEN Some(entry.value) ELSE ci

\* Mutant: with no index selected the data register is handled as a direct
\* register.
BranchUnselectedAsDirect(ci, entry) ==
    IF entry.offset = IndexOffset THEN "index"
    ELSE IF entry.offset = DataOffset
         THEN (IF ci # None THEN "indexed" ELSE "direct")
         ELSE "direct"

\* Mutant: a Read of the index register is classified like a direct read.
BranchIndexReadAsDirect(ci, entry) ==
    IF entry.offset = IndexOffset /\ entry.op # "Read" THEN "index"
    ELSE IF entry.offset = DataOffset
         THEN (IF ci # None THEN "indexed" ELSE "skipped")
         ELSE "direct"

\* Which branch of the loop body handles the entry: the index register, the
\* data register under a selected index, the data register with no index
\* selected (nothing is done), or a direct register.
Branch(ci, entry) ==
    IF entry.offset = IndexOffset THEN "index"
    ELSE IF entry.offset = DataOffset
         THEN (IF ci # None THEN "indexed" ELSE "skipped")
         ELSE "direct"

\* Mutant: the read-before-write check forgets the written set.
IsReadBeforeWriteIgnoringWritten(key, written, reported) ==
    key \notin reported

\* Mutant: the read-before-write check forgets the reported set.
IsReadBeforeWriteUnreported(key, written, reported) ==
    key \notin written

\* Read: key not in written, and key not in reported.
IsReadBeforeWrite(key, written, reported) ==
    key \notin written /\ key \notin reported

\* Mutant: the device-controlled check forgets write_since_read.
IsDeviceControlledIgnoringWrites(state, key, value) ==
    /\ key \in DOMAIN state
    /\ state[key].last_read # None
    /\ state[key].last_read # Some(value)

\* Mutant: the device-controlled check looks at the last read value alone,
\* present or not.
IsDeviceControlledOnAnyEntry(state, key, value) ==
    /\ key \in DOMAIN state
    /\ state[key].last_read # Some(value)

\* Read: key in state, no write since the last read, and the value differs.
IsDeviceControlled(state, key, value) ==
    /\ key \in DOMAIN state
    /\ ~state[key].write_since_read
    /\ state[key].last_read # Some(value)

\* Read: state[key] = {'last_read': value, 'write_since_read': False}
ReadState(state, key, value) ==
    Put(state, key, [last_read |-> Some(value), write_since_read |-> FALSE])

\* Mutant: a Write marks every register of the table as written since its
\* last read.
WriteStateMarkingAll(state, key) ==
    [k \in DOMAIN state \cup {key} |->
        IF k \in DOMAIN state THEN [state[k] EXCEPT !.write_since_read = TRUE]
        ELSE [last_read |-> None, write_since_read |-> TRUE]]

\* Mutant: a Write starts the entry afresh, forgetting the last read value.
WriteStateForgettingRead(state, key) ==
    Put(state, key, [last_read |-> None, write_since_read |-> TRUE])

\* Write: state[key]['write_since_read'] = True, or a new entry with
\* last_read None.
WriteState(state, key) ==
    IF key \in DOMAIN state
    THEN [state EXCEPT ![key].write_since_read = TRUE]
    ELSE Put(state, key, [last_read |-> None, write_since_read |-> TRUE])

\* The records of the indexed scheme.
RbwIndexedRecord(ci, value, i) == [index |-> ci, value |-> value, line |-> i]

\* old_value is state['last_read'] as the table holds it: None or Some(v).
DcIndexedRecord(ci, old_value, value, i) ==
    [index |-> ci, old_value |-> old_value, new_value |-> value, line |-> i]

\* The records of the direct scheme.
RbwDirectRecord(offset, value, i) == [offset |-> offset, value |-> value, line |-> i]

DcDirectRecord(offset, old_value, value, i) ==
    [offset |-> offset, old_value |-> old_value, new_value |-> value, line |-> i]

\* The state of analyze_registers before the loop.
RegInit ==
    [current_index |-> None,
     indexed_written |-> {}, direct_written |-> {},
     read_before_write_indexed |-> <<>>, read_before_write_direct |-> <<>>,
     reported_indexed_rbw |-> {}, reported_direct_rbw |-> {},
     indexed_state |-> EmptyDict, direct_state |-> EmptyDict,
     device_controlled_indexed |-> <<>>, device_controlled_direct |-> <<>>]

\* offset == 0x0: the index register.
IndexBody(st, entry) ==
    [st EXCEPT !.current_index = UpdateCurrentIndex(st.current_index, entry)]

\* offset == 0x4 with current_index not None: the indexed scheme.
IndexedBody(st, i, entry) ==
    LET ci == Held(st.current_index)
        value == entry.value
    IN  IF entry.op = "Read" THEN
            LET rbw == IsReadBeforeWrite(ci, st.indexed_written, st.reported_indexed_rbw)
                dc == IsDeviceControlled(st.indexed_state, ci, value)
            IN  [st EXCEPT
                   !.read_before_write_indexed =
                       IF rbw THEN Append(@, RbwIndexedRecord(ci, value, i)) ELSE @,
                   !.reported_indexed_rbw = IF rbw THEN @ \cup {ci} ELSE @,
                   !.device_controlled_indexed =
                       IF dc THEN Append(@, DcIndexedRecord(ci,
                                               st.indexed_state[ci].last_read, value, i))
                             ELSE @,
                   !.indexed_state = ReadState(@, ci, value)]
        ELSE IF entry.op = "Write" THEN
            [st EXCEPT !.indexed_written = @ \cup {ci},
                       !.indexed_state = WriteState(@, ci)]
        ELSE st

\* Any other offset: the direct scheme.
DirectBody(st, i, entry) ==
    LET offset == entry.offset
        value == entry.value
    IN  IF entry.op = "Read" THEN
            LET rbw == IsReadBeforeWrite(offset, st.direct_written, st.reported_direct_rbw)
                dc == IsDeviceControlled(st.direct_state, offset, value)
            IN  [st EXCEPT
                   !.read_before_write_direct =
                       IF rbw THEN Append(@, RbwDirectRecord(offset, value, i)) ELSE @,
                   !.reported_direct_rbw = IF rbw THEN @ \cup {offset} ELSE @,
                   !.device_controlled_direct =
                       IF dc THEN Append(@, DcDirectRecord(offset,
                                               st.direct_state[offset].last_read, value, i))
                             ELSE @,
                   !.direct_state = ReadState(@, offset, value)]
        ELSE IF entry.op = "Write" THEN
            [st EXCEPT !.direct_written = @ \cup {offset},
                       !.direct_state = WriteState(@, offset)]
        ELSE st

\* One iteration of the loop of analyze_registers: entry is entries[i].
RegBody(st, i, entry) ==
    LET b == Branch(st.current_index, entry)
    IN  IF b = "index" THEN IndexBody(st, entry)
        ELSE IF b = "indexed" THEN IndexedBody(st, i, entry)
        ELSE IF b = "skipped" THEN st
        ELSE DirectBody(st, i, entry)

\* analyze_registers(es): the loop run over the whole list.
RECURSIVE analyze_registers(_)
analyze_registers(es) ==
    IF es = <<>> THEN RegInit
    ELSE RegBody(analyze_registers(SubSeq(es, 1, Len(es) - 1)), Len(es) - 1, es[Len(es)])

\* The analyzer's state as one record.
RegState ==
    [current_index |-> current_index,
     indexed_written |-> indexed_written, direct_written |-> direct_written,
     read_before_write_indexed |-> read_before_write_indexed,
     read_before_write_direct |-> read_before_write_direct,
     reported_indexed_rbw |-> reported_indexed_rbw,
     reported_direct_rbw |-> reported_direct_rbw,
     indexed_state |-> indexed_state, direct_state |-> direct_state,
     device_controlled_indexed |-> device_controlled_indexed,
     device_controlled_direct |-> device_controlled_direct]

\* ------------------------------------------- scripty2.py: the report
\* The number of changes of one register that the report lists in full.
MaxShown == 20

\* A mutant of Order: the positions as they stand.
OrderAsGiven(keys) == [r \in 1..Len(keys) |-> r]

\* The order in which Python's sorted() visits the positions of a list whose
\* sort keys are `keys`: ascending by key, equal keys in list order (stable).
Order(keys) ==
    LET n == Len(keys)
        rank(p) == Cardinality({q \in 1..n :
                       \/ keys[q] < keys[p]
                       \/ (keys[q] = keys[p] /\ q < p)}) + 1
    IN  [r \in 1..n |-> CHOOSE p \in 1..n : rank(p) = r]

\* sorted(list, key=...), the sort keys given position by position.
sorted(list, keys) == [r \in 1..Len(list) |-> list[Order(keys)[r]]]

\* key=lambda x: x['index'] and key=lambda x: x['offset'].
IndexKeys(list) == [p \in 1..Len(list) |-> list[p].index]

OffsetKeys(list) == [p \in 1..Len(list) |-> list[p].offset]

\* sorted(a set of numbers): its elements in ascending order.
RECURSIVE sorted_values(_)
sorted_values(S) ==
    IF S = {} THEN <<>>
    ELSE LET m == CHOOSE x \in S : \A y \in S : y <= x
         IN  Append(sorted_values(S \ {m}), m)

\* change.get('index', change.get('offset'))
SummaryKey(change) ==
    IF "index" \in DOMAIN change THEN change.index ELSE change.offset

\* A mutant of SummaryAdd: a register's entry keeps only its latest change.
SummaryAddLatestOnly(summary, change) ==
    Put(summary, SummaryKey(change),
        [changes |-> <<change>>,
         unique_values |-> {change.old_value, Some(change.new_value)}])

\* One iteration of summarize_device_controlled's loop. unique_values holds
\* what the records hold: old values as the state table held them (Some(v)),
\* and new values likewise.
SummaryAdd(summary, change) ==
    LET key == SummaryKey(change)
        info == IF key \in DOMAIN summary THEN summary[key]
                ELSE [changes |-> <<>>, unique_values |-> {}]
    IN  Put(summary, key,
            [changes |-> Append(info.changes, change),
             unique_values |-> info.unique_values
                                 \cup {change.old_value, Some(change.new_value)}])

RECURSIVE summarize_device_controlled(_)
summarize_device_controlled(changes) ==
    IF changes = <<>> THEN EmptyDict
    ELSE SummaryAdd(summarize_device_controlled(SubSeq(changes, 1, Len(changes) - 1)),
                    changes[Len(changes)])

\* Section 2 of the report for one summary: one block per register, the
\* registers in ascending order, the values observed in ascending order, the
\* first MaxShown changes, and the number of changes left out.
SummaryRows(summary) ==
    LET keys == sorted_values(DOMAIN summary)
    IN  [r \in 1..Len(keys) |->
            LET info == summary[keys[r]]
                n == Len(info.changes)
            IN  [key |-> keys[r],
                 total |-> n,
                 values |-> sorted_values({Held(v) : v \in info.unique_values}),
                 shown |-> SubSeq(info.changes, 1, IF n > MaxShown THEN MaxShown ELSE n),
                 more |-> IF n > MaxShown THEN n - MaxShown ELSE 0]]

\* Section 3 of the report: one initialisation line per read-before-write row.
InitLines(rows, keys) ==
    [r \in 1..Len(rows) |-> [reg |-> keys[r], value |-> rows[r].value]]

\* One "toggles between" comment per device-controlled register.
ToggleLines(blocks) ==
    [r \in 1..Len(blocks) |-> [key |-> blocks[r].key, values |-> blocks[r].values]]

\* What write_report of scripty2.py puts into the file.
RegistersReport(rbw_indexed, rbw_direct, dc_indexed, dc_direct) ==
    LET rows_indexed == sorted(rbw_indexed, IndexKeys(rbw_indexed))
        rows_direct == sorted(rbw_direct, OffsetKeys(rbw_direct))
        dc_indexed_summary == summarize_device_controlled(dc_indexed)
        dc_direct_summary == summarize_device_controlled(dc_direct)
    IN  [rbw_indexed |-> rows_indexed,
         rbw_indexed_total |-> Len(rbw_indexed),
         rbw_direct |-> rows_direct,
         rbw_direct_total |-> Len(rbw_direct),
         dc_indexed |-> SummaryRows(dc_indexed_summary),
         dc_indexed_total |-> Cardinality(DOMAIN dc_indexed_summary),
         dc_direct |-> SummaryRows(dc_direct_summary),
         dc_direct_total |-> Cardinality(DOMAIN dc_direct_summary),
         init_indexed |-> InitLines(rows_indexed, IndexKeys(rows_indexed)),
         init_direct |-> InitLines(rows_direct, OffsetKeys(rows_direct)),
         toggles_indexed |-> ToggleLines(SummaryRows(dc_indexed_summary)),
         toggles_direct |-> ToggleLines(SummaryRows(dc_direct_summary))]

\* --------------------------------------------- scripty.py: the report
\* The number of data values of one register select value, and of unique
\* values of one offset, that the report lists in full.
MaxShownData == 8

MaxShownUnique == 10

\* The elements of a sequence, as a set.
Range(list) == {list[p] : p \in 1..Len(list)}

\* The first `n` elements of a list: list[:n].
Take(list, n) == SubSeq(list, 1, IF Len(list) > n THEN n ELSE Len(list))

\* The number of elements of a list after its first `n`.
Beyond(list, n) == IF Len(list) > n THEN Len(list) - n ELSE 0

\* Mutant: a data value is listed every time it is paired.
RegDataAddAlways(reg_data_map, pair) ==
    LET reg == pair.reg_select
        listed == IF reg \in DOMAIN reg_data_map THEN reg_data_map[reg] ELSE <<>>
    IN  Put(reg_data_map, reg, Append(listed, pair.data_value))

\* One iteration of the reg_data_map loop: a data value is listed under its
\* register select value unless it is listed there already.
RegDataAdd(reg_data_map, pair) ==
    LET reg == pair.reg_select
        data == pair.data_value
        listed == IF reg \in DOMAIN reg_data_map THEN reg_data_map[reg] ELSE <<>>
    IN  Put(reg_data_map, reg,
            IF data \in Range(listed) THEN listed ELSE Append(listed, data))

RECURSIVE RegDataMap(_)
RegDataMap(pairs) ==
    IF pairs = <<>> THEN EmptyDict
    ELSE RegDataAdd(RegDataMap(SubSeq(pairs, 1, Len(pairs) - 1)), pairs[Len(pairs)])

\* list(dict.fromkeys(values)): the values without repetitions, in order of
\* first occurrence.
RECURSIVE UniqueInOrder(_)
UniqueInOrder(values) ==
    IF values = <<>> THEN <<>>
    ELSE LET front == UniqueInOrder(SubSeq(values, 1, Len(values) - 1))
             last == values[Len(values)]
         IN  IF last \in Range(front) THEN front ELSE Append(front, last)

\* Section 1: one numbered row per pair.
PairRows(pairs) ==
    [idx \in 1..Len(pairs) |->
        [number |-> idx,
         reg_select |-> pairs[idx].reg_select,
         data_value |-> pairs[idx].data_value,
         marker |-> IF pairs[idx].data_changed THEN "*" ELSE ""]]

\* Section 2: one block per register select value, in ascending order.
RegDataRows(reg_data_map) ==
    LET regs == sorted_values(DOMAIN reg_data_map)
    IN  [r \in 1..Len(regs) |->
            LET data_values == reg_data_map[regs[r]]
            IN  [reg |-> regs[r],
                 unique |-> Len(data_values),
                 shown |-> Take(data_values, MaxShownData),
                 more |-> Beyond(data_values, MaxShownData)]]

\* Section 3: one block per offset that has changes, in ascending order.
ChangeRows(ac) ==
    LET HasChanges(offset) == Len(ac[offset]) # 0
        offsets == SelectSeq(sorted_values(DOMAIN ac), HasChanges)
    IN  [r \in 1..Len(offsets) |->
            LET changes == ac[offsets[r]]
                values == [p \in 1..Len(changes) |-> changes[p].new]
                unique_values == UniqueInOrder(values)
            IN  [offset |-> offsets[r],
                 count |-> Len(changes),
                 values |-> values,
                 unique |-> Len(unique_values),
                 shown |-> Take(unique_values, MaxShownUnique),
                 more |-> Beyond(unique_values, MaxShownUnique)]]

\* Section 4: one row per timeline entry, changes marked and shown as the
\* old value (None is printed as "(new)") and the new value.
TimelineRows(tl) ==
    [r \in 1..Len(tl) |->
        [marker |-> IF tl[r].changed THEN ">>>" ELSE "   ",
         index |-> tl[r].index, op |-> tl[r].op,
         offset |-> tl[r].offset, value |-> tl[r].value,
         change |-> IF tl[r].changed THEN <<tl[r].old_value, tl[r].value>>
                    ELSE <<>>]]

\* Section 5: one row per changed timeline entry.
ChangedRows(tl) ==
    LET Changed(entry) == entry.changed
        changed == SelectSeq(tl, Changed)
    IN  [r \in 1..Len(changed) |->
            [index |-> changed[r].index, offset |-> changed[r].offset,
             old_value |-> changed[r].old_value, value |-> changed[r].value]]

\* Section 6: the last written value of every offset that was written.
FinalRows(cs) ==
    LET Known(offset) == cs[offset] # None
        offsets == SelectSeq(sorted_values(DOMAIN cs), Known)
    IN  [r \in 1..Len(offsets) |->
            [offset |-> offsets[r], value |-> Held(cs[offsets[r]])]]

\* What write_report of scripty.py puts into the file.
LogReport(es, tl, ac, pairs, cs) ==
    [total_operations |-> Len(es),
     unique_offsets |-> Cardinality(DOMAIN cs),
     total_pairs |-> Len(pairs),
     offsets |-> sorted_values(DOMAIN cs),
     pairs |-> PairRows(pairs),
     reg_data |-> RegDataRows(RegDataMap(pairs)),
     changes |-> ChangeRows(ac),
     timeline |-> TimelineRows(tl),
     changed |-> ChangedRows(tl),
     final |-> FinalRows(cs)]

\* ---------------------------------------------------------------- parse_log
\* The characters of the fields that occur in the sample lines.
Spell(field) ==
    CASE field = "Read" -> <<"R", "e", "a", "d">>
      [] field = "Write" -> <<"W", "r", "i", "t", "e">>
      [] field = "Foo" -> <<"F", "o", "o">>
      [] field = "Operation" -> <<"O", "p", "e", "r", "a", "t", "i", "o", "n">>
      [] field = "Operations" -> <<"O", "p", "e", "r", "a", "t", "i", "o", "n", "s">>
      [] field = "Offset" -> <<"O", "f", "f", "s", "e", "t">>
      [] field = "Value" -> <<"V", "a", "l", "u", "e">>
      [] field = "Length" -> <<"L", "e", "n", "g", "t", "h">>
      [] field = "extra" -> <<"e", "x", "t", "r", "a">>
      [] field = "----" -> <<"-", "-", "-", "-">>
      [] field = "----------" -> <<"-", "-", "-", "-", "-", "-", "-", "-", "-", "-">>
      [] field = "0x0" -> <<"0", "x", "0">>
      [] field = "0x1" -> <<"0", "x", "1">>
      [] field = "0x2" -> <<"0", "x", "2">>
      [] field = "0x4" -> <<"0", "x", "4">>
      [] field = "0x8" -> <<"0", "x", "8">>
      [] field = "0xZZ" -> <<"0", "x", "Z", "Z">>
      [] field = "-0x1" -> <<"-", "0", "x", "1">>
      [] field = "4" -> <<"4">>
      [] field = "A" -> <<"A">>
      [] field = "10" -> <<"1", "0">>

\* The value of a hexadecimal digit.
HexDigit(c) ==
    CASE c = "0" -> 0 [] c = "1" -> 1 [] c = "2" -> 2 [] c = "3" -> 3
      [] c = "4" -> 4 [] c = "5" -> 5 [] c = "6" -> 6 [] c = "7" -> 7
      [] c = "8" -> 8 [] c = "9" -> 9
      [] c \in {"a", "A"} -> 10 [] c \in {"b", "B"} -> 11
      [] c \in {"c", "C"} -> 12 [] c \in {"d", "D"} -> 13
      [] c \in {"e", "E"} -> 14 [] c \in {"f", "F"} -> 15

\* The characters that int(_, 16) takes for digits.
HexDigits ==
    {"0", "1", "2", "3", "4", "5", "6", "7", "8", "9",
     "a", "b", "c", "d", "e", "f", "A", "B", "C", "D", "E", "F"}

\* The number a string of hexadecimal digits denotes.
RECURSIVE HexValue(_)
HexValue(digits) ==
    IF digits = <<>> THEN 0
    ELSE 16 * HexValue(SubSeq(digits, 1, Len(digits) - 1))
             + HexDigit(digits[Len(digits)])

\* int(field, 16): an optional sign, an optional 0x prefix, then one or more
\* hexadecimal digits, as Some(number); anything else raises ValueError
\* (None).
ParseHex(field) ==
    LET chars == Spell(field)
        signed == chars # <<>> /\ chars[1] \in {"+", "-"}
        unsigned == IF signed THEN SubSeq(chars, 2, Len(chars)) ELSE chars
        prefixed == Len(unsigned) >= 2 /\ unsigned[1] = "0" /\ unsigned[2] \in {"x", "X"}
        digits == IF prefixed THEN SubSeq(unsigned, 3, Len(unsigned)) ELSE unsigned
    IN  IF digits # <<>> /\ \A p \in 1..Len(digits) : digits[p] \in HexDigits
        THEN Some(IF signed /\ chars[1] = "-" THEN 0 - HexValue(digits)
                  ELSE HexValue(digits))
        ELSE None

\* line.startswith(prefix) for a prefix without white space: the line begins
\* with its first field, and that field begins with the prefix.
StartsWith(line, prefix) ==
    /\ ~line.indent
    /\ line.fields # <<>>
    /\ LET chars == Spell(line.fields[1])
           want == Spell(prefix)
       IN  /\ Len(chars) >= Len(want)
           /\ SubSeq(chars, 1, Len(want)) = want

\* A mutant of Lines: the text is split without being stripped.
LinesUnstripped(log_text) ==
    IF log_text = <<>> THEN <<Line(FALSE, <<>>)>> ELSE log_text

\* log_text.strip().split('\n'): strip() removes the white space at both ends
\* of the text, that is the blank lines before the first line that has a
\* field, that line's indentation, and the blank lines after the last line
\* that has a field; a text of white space only splits into one empty line.
Lines(log_text) ==
    LET filled == {p \in 1..Len(log_text) : log_text[p].fields # <<>>}
    IN  IF filled = {} THEN <<Line(FALSE, <<>>)>>
        ELSE LET a == CHOOSE p \in filled : \A q \in filled : p <= q
                 b == CHOOSE p \in filled : \A q \in filled : q <= p
             IN  [r \in 1..(b - a + 1) |->
                     IF r = 1 THEN Line(FALSE, log_text[a].fields)
                     ELSE log_text[a + r - 1]]

\* One iteration of parse_log's loop: the entries one line contributes.
ParseLine(line) ==
    IF \/ StartsWith(line, "Operation")
       \/ StartsWith(line, "----")
       \/ line.fields = <<>>
    THEN <<>>
    ELSE LET parts == line.fields
         IN  IF Len(parts) >= 4
             THEN LET offset == ParseHex(parts[2])
                      value == ParseHex(parts[3])
                      length == ParseHex(parts[4])
                  IN  IF offset # None /\ value # None /\ length # None
                      THEN <<Entry(parts[1], Held(offset), Held(value), Held(length))>>
                      ELSE <<>>
             ELSE <<>>

RECURSIVE ParseLines(_)
ParseLines(lines) ==
    IF lines = <<>> THEN <<>>
    ELSE ParseLines(SubSeq(lines, 1, Len(lines) - 1)) \o ParseLine(lines[Len(lines)])

parse_log(log_text) == ParseLines(Lines(log_text))

\* ------------------------------------------------------------ state machine
\* No trace file: the analyzers are run on a list of entries directly.
NoFile == [status |-> "none", text |-> <<>>]

\* main at its first prompt, for the file name: nothing that the model tracks
\* has happened yet.
DriverAtStart ==
    /\ pc = "start"
    /\ log_data = <<>>
    /\ outcome = "running"
    /\ console = <<>>
    /\ calls = <<>>
    /\ report = <<>>

\* Both analyzers before their loops.
AnalyzersAtStart ==
    /\ entries = <<>>
    /\ current_state = LogInit.current_state
    /\ all_changes = LogInit.all_changes
    /\ pairs_0x0_0x4 = LogInit.pairs_0x0_0x4
    /\ last_0x0_write = LogInit.last_0x0_write
    /\ timeline = LogInit.timeline
    /\ current_index = RegInit.current_index
    /\ indexed_written = RegInit.indexed_written
    /\ direct_written = RegInit.direct_written
    /\ read_before_write_indexed = RegInit.read_before_write_indexed
    /\ read_before_write_direct = RegInit.read_before_write_direct
    /\ reported_indexed_rbw = RegInit.reported_indexed_rbw
    /\ reported_direct_rbw = RegInit.reported_direct_rbw
    /\ indexed_state = RegInit.indexed_state
    /\ direct_state = RegInit.direct_state
    /\ device_controlled_indexed = RegInit.device_controlled_indexed
    /\ device_controlled_direct = RegInit.device_controlled_direct

Init ==
    /\ script \in Scripts
    /\ file = NoFile
    /\ DriverAtStart
    /\ AnalyzersAtStart

\* scripty.py: one iteration of `for i, entry in enumerate(entries)`.
AnalyzeLogStep(E, maxLen) ==
    /\ script = "scripty"
    /\ Len(entries) < maxLen
    /\ \E entry \in E :
          LET n == LogBody(LogState, Len(entries), entry)
          IN  /\ entries' = Append(entries, entry)
              /\ current_state' = n.current_state
              /\ all_changes' = n.all_changes
              /\ pairs_0x0_0x4' = n.pairs_0x0_0x4
              /\ last_0x0_write' = n.last_0x0_write
              /\ timeline' = n.timeline
    /\ UNCHANGED <<script, regVars, driverVars>>

\* scripty2.py: one iteration of `for i, entry in enumerate(entries)`.
AnalyzeRegistersStep(E, maxLen) ==
    /\ script = "scripty2"
    /\ Len(entries) < maxLen
    /\ \E entry \in E :
          LET n == RegBody(RegState, Len(entries), entry)
          IN  /\ entries' = Append(entries, entry)
              /\ current_index' = n.current_index
              /\ indexed_written' = n.indexed_written
              /\ direct_written' = n.direct_written
              /\ read_before_write_indexed' = n.read_before_write_indexed
              /\ read_before_write_direct' = n.read_before_write_direct
              /\ reported_indexed_rbw' = n.reported_indexed_rbw
              /\ reported_direct_rbw' = n.reported_direct_rbw
              /\ indexed_state' = n.indexed_state
              /\ direct_state' = n.direct_state
              /\ device_controlled_indexed' = n.device_controlled_indexed
              /\ device_controlled_direct' = n.device_controlled_direct
    /\ UNCHANGED <<script, logVars, driverVars>>

LogNext == AnalyzeLogStep(Events, MaxLen)

RegNext == AnalyzeRegistersStep(Events, MaxLen)

Next == LogNext \/ RegNext

Spec == Init /\ [][Next]_vars

\* The pairing scenario: analyze_log over writes to the index and data
\* registers only.
PairingInit == Init /\ script = "scripty"

PairingNext == AnalyzeLogStep(PairingEvents, MaxPairLen)

SpecPairing == PairingInit /\ [][PairingNext]_vars

\* analyze_log over entries that may carry any operation keyword.
OpsInit == Init /\ script = "scripty"

OpsNext == AnalyzeLogStep(OpsEvents, MaxOpsLen)

SpecOps == OpsInit /\ [][OpsNext]_vars

\* Either analyzer over accesses of several widths.
WidthNext ==
    \/ AnalyzeLogStep(WidthEvents, MaxWidthLen)
    \/ AnalyzeRegistersStep(WidthEvents, MaxWidthLen)

SpecWidth == Init /\ [][WidthNext]_vars

\* scripty2.py: write_report on the lists the analyzer returned.
WriteRegistersReport ==
    report' = <<RegistersReport(read_before_write_indexed, read_before_write_direct,
                                device_controlled_indexed, device_controlled_direct)>>

\* analyze_registers over reads of three data registers and writes of the
\* index register, followed by the report on what it returned.
ReportInit == Init /\ script = "scripty2"

ReportStep ==
    /\ script = "scripty2"
    /\ entries # <<>>
    /\ report = <<>>
    /\ WriteRegistersReport
    /\ UNCHANGED <<script, entries, logVars, regVars,
                   file, pc, log_data, outcome, console, calls>>

ReportNext ==
    \/ (report = <<>> /\ AnalyzeRegistersStep(ReportEvents, MaxReportLen))
    \/ ReportStep

SpecReport == ReportInit /\ [][ReportNext]_vars

\* scripty.py: write_report on what analyze_log returned.
WriteLogReport ==
    report' = <<LogReport(entries, timeline, all_changes, pairs_0x0_0x4, current_state)>>

\* analyze_registers over traces that switch between indexed registers, and
\* that access direct registers among their first MaxDirectLen events.
FrameInit == Init /\ script = "scripty2"

FrameNext ==
    \/ AnalyzeRegistersStep(FrameEvents, MaxFrameLen)
    \/ AnalyzeRegistersStep(DirectFrameEvents, MaxDirectLen)

SpecFrame == FrameInit /\ [][FrameNext]_vars

\* analyze_log over writes to the index and data registers, followed by the
\* report on what it returned.
LogReportInit == Init /\ script = "scripty"

LogReportStep ==
    /\ script = "scripty"
    /\ entries # <<>>
    /\ report = <<>>
    /\ WriteLogReport
    /\ UNCHANGED <<script, entries, logVars, regVars,
                   file, pc, log_data, outcome, console, calls>>

LogReportNext ==
    \/ (report = <<>> /\ AnalyzeLogStep(PairingEvents, MaxLogReportLen))
    \/ LogReportStep

SpecLogReport == LogReportInit /\ [][LogReportNext]_vars

\* A mutant of LoadOutcome: every file is taken as read.
LoadOutcomeIgnoringErrors(status) == "loaded"

\* main's try block around open() and read(): the file is read, or it does
\* not exist (FileNotFoundError), or reading it fails (any other Exception).
LoadOutcome(status) ==
    CASE status = "ok" -> "loaded"
      [] status = "missing" -> "file_not_found"
      [] OTHER -> "read_error"

\* Where main waits at input('\nPress Enter to exit...') before a return, by
\* the reason of the return.
WaitFor(reason) ==
    CASE reason = "file_not_found" -> "wait_file_not_found"
      [] reason = "read_error" -> "wait_read_error"
      [] reason = "no_entries" -> "wait_no_entries"

\* The places where main waits at that prompt.
Waiting == {"wait_file_not_found", "wait_read_error", "wait_no_entries"}

\* The outcome of the return that follows the prompt main waits at.
ReturnFrom(place) ==
    CASE place = "wait_file_not_found" -> "file_not_found"
      [] place = "wait_read_error" -> "read_error"
      [] place = "wait_no_entries" -> "no_entries"

\* main, from the line that arrives at the prompt for the file name to the
\* end of the try statement: the file is loaded, or the error message is
\* printed and main waits at the 'Press Enter to exit...' prompt.
LoadFile ==
    /\ pc = "start"
    /\ file # NoFile
    /\ LET result == LoadOutcome(file.status)
       IN  IF result = "loaded"
           THEN /\ log_data' = file.text
                /\ console' = Append(console, "Loaded")
                /\ pc' = "loaded"
           ELSE /\ console' = Append(console,
                                     IF result = "file_not_found"
                                     THEN "ERROR: File not found!"
                                     ELSE "ERROR: exception")
                /\ pc' = WaitFor(result)
                /\ UNCHANGED log_data
    /\ UNCHANGED <<script, entries, logVars, regVars, file, outcome, calls, report>>

\* A mutant of IsEmpty: a trace without entries is analysed like any other.
IsEmptyNever(es) == FALSE

\* len(entries) == 0
IsEmpty(es) == Len(es) = 0

\* main: parse_log(log_data) and the check for an empty result; on an empty
\* result the message is printed and main waits at the 'Press Enter to
\* exit...' prompt.
ParseLog ==
    /\ pc = "loaded"
    /\ LET parsed == parse_log(log_data)
       IN  /\ entries' = parsed
           /\ calls' = Append(calls, "parse_log")
           /\ IF IsEmpty(parsed)
              THEN /\ console' = console \o <<"Parsing", "ERROR: No valid entries found!">>
                   /\ pc' = WaitFor("no_entries")
              ELSE /\ console' = console \o <<"Parsing", "Found operations">>
                   /\ pc' = "parsed"
    /\ UNCHANGED <<script, logVars, regVars, file, log_data, outcome, report>>

\* A line arrives at the 'Press Enter to exit...' prompt: input() returns and
\* main returns.
PressEnter ==
    /\ pc \in Waiting
    /\ outcome' = ReturnFrom(pc)
    /\ pc' = "exit"
    /\ UNCHANGED <<script, entries, logVars, regVars, file, log_data, console,
                   calls, report>>

\* The console input has ended while main waits at a prompt (for the file
\* name, or 'Press Enter to exit...'): input() raises EOFError, which nothing
\* catches, and main ends by that exception.
EndOfInput ==
    /\ pc \in {"start"} \cup Waiting
    /\ file # NoFile
    /\ outcome' = "eof_error"
    /\ pc' = "exit"
    /\ UNCHANGED <<script, entries, logVars, regVars, file, log_data, console,
                   calls, report>>

\* main: the call of the analyzer and the summary printed from its results.
Analyze ==
    /\ pc = "parsed"
    /\ IF script = "scripty"
       THEN /\ LET n == analyze_log(entries)
               IN  /\ current_state' = n.current_state
                   /\ all_changes' = n.all_changes
                   /\ pairs_0x0_0x4' = n.pairs_0x0_0x4
                   /\ last_0x0_write' = n.last_0x0_write
                   /\ timeline' = n.timeline
            /\ UNCHANGED regVars
       ELSE /\ LET n == analyze_registers(entries)
               IN  /\ current_index' = n.current_index
                   /\ indexed_written' = n.indexed_written
                   /\ direct_written' = n.direct_written
                   /\ read_before_write_indexed' = n.read_before_write_indexed
                   /\ read_before_write_direct' = n.read_before_write_direct
                   /\ reported_indexed_rbw' = n.reported_indexed_rbw
                   /\ reported_direct_rbw' = n.reported_direct_rbw
                   /\ indexed_state' = n.indexed_state
                   /\ direct_state' = n.direct_state
                   /\ device_controlled_indexed' = n.device_controlled_indexed
                   /\ device_controlled_direct' = n.device_controlled_direct
            /\ UNCHANGED logVars
    /\ calls' = Append(calls, "analyze")
    /\ console' = console \o <<"Analyzing", "Summary">>
    /\ pc' = "analyzed"
    /\ UNCHANGED <<script, entries, file, log_data, outcome, report>>

\* main: write_report and the closing message.
WriteReport ==
    /\ pc = "analyzed"
    /\ IF script = "scripty" THEN WriteLogReport ELSE WriteRegistersReport
    /\ calls' = Append(calls, "write_report")
    /\ console' = console \o <<"Writing report", "DONE!">>
    /\ outcome' = "done"
    /\ pc' = "exit"
    /\ UNCHANGED <<script, entries, logVars, regVars, file, log_data>>

\* A run of either driver on a trace file.
MainInit ==
    /\ script \in Scripts
    /\ file \in Files(MaxLines)
    /\ DriverAtStart
    /\ AnalyzersAtStart

MainNext ==
    LoadFile \/ ParseLog \/ PressEnter \/ EndOfInput \/ Analyze \/ WriteReport

SpecMain == MainInit /\ [][MainNext]_vars

\* ------------------------------------------------ reference trace semantics
\* What the claims say about a trace, stated over `entries` alone.  Positions
\* in a TLA+ sequence start at 1; the analyzers' positions (index, line)
\* start at 0, so the event at sequence position j has position j - 1.

\* The positions before j of Writes to the index register.
IndexWritesBefore(es, j) ==
    {p \in 1..(j - 1) : es[p].op = "Write" /\ es[p].offset = IndexOffset}

\* The greatest element of a non-empty set of positions.
Latest(S) == CHOOSE p \in S : \A q \in S : q <= p

\* The index selected when the event at position j is processed: None, or
\* Some(the value of the latest index write).
SelectedIndex(es, j) ==
    IF IndexWritesBefore(es, j) = {} THEN None
    ELSE Some(es[Latest(IndexWritesBefore(es, j))].value)

NoKey == [scheme |-> "none", key |-> 0]

\* The register the event at position j targets: a direct offset, the
\* register selected through the index register, or none.
KeyAt(es, j) ==
    IF es[j].offset = IndexOffset THEN NoKey
    ELSE IF es[j].offset = DataOffset
         THEN (IF SelectedIndex(es, j) = None THEN NoKey
               ELSE [scheme |-> "indexed", key |-> Held(SelectedIndex(es, j))])
         ELSE [scheme |-> "direct", key |-> es[j].offset]

\* The positions before j of events of operation op on the register of j.
SameKeyBefore(es, j, op) ==
    {p \in 1..(j - 1) : es[p].op = op /\ KeyAt(es, p) = KeyAt(es, j)}

\* The event at j is a Read of a register of the scheme whose most recent
\* earlier Read returned another value, with no Write in between.
ChangedWithoutWrite(es, j, scheme) ==
    /\ es[j].op = "Read"
    /\ KeyAt(es, j).scheme = scheme
    /\ SameKeyBefore(es, j, "Read") # {}
    /\ LET p == Latest(SameKeyBefore(es, j, "Read"))
       IN  /\ es[p].value # es[j].value
           /\ \A q \in SameKeyBefore(es, j, "Write") : q < p

\* The event at j is the first Read of a register of the scheme, and no
\* Write to that register comes before it.
FirstReadBeforeWrite(es, j, scheme) ==
    /\ es[j].op = "Read"
    /\ KeyAt(es, j).scheme = scheme
    /\ SameKeyBefore(es, j, "Read") = {}
    /\ SameKeyBefore(es, j, "Write") = {}

\* The positions of a set, in ascending order.
RECURSIVE Ascending(_)
Ascending(S) ==
    IF S = {} THEN <<>> ELSE Append(Ascending(S \ {Latest(S)}), Latest(S))

\* The records Rec(j), in trace order, of the positions of es that satisfy P.
Collect(es, P(_), Rec(_)) ==
    LET pos == Ascending({j \in 1..Len(es) : P(j)})
    IN  [k \in 1..Len(pos) |-> Rec(pos[k])]

ExpectedDcDirect(es) ==
    LET P(j) == ChangedWithoutWrite(es, j, "direct")
        Rec(j) == [offset |-> es[j].offset,
                   old_value |-> Some(es[Latest(SameKeyBefore(es, j, "Read"))].value),
                   new_value |-> es[j].value, line |-> j - 1]
    IN  Collect(es, P, Rec)

ExpectedDcIndexed(es) ==
    LET P(j) == ChangedWithoutWrite(es, j, "indexed")
        Rec(j) == [index |-> KeyAt(es, j).key,
                   old_value |-> Some(es[Latest(SameKeyBefore(es, j, "Read"))].value),
                   new_value |-> es[j].value, line |-> j - 1]
    IN  Collect(es, P, Rec)

ExpectedRbwDirect(es) ==
    LET P(j) == FirstReadBeforeWrite(es, j, "direct")
        Rec(j) == [offset |-> es[j].offset, value |-> es[j].value, line |-> j - 1]
    IN  Collect(es, P, Rec)

ExpectedRbwIndexed(es) ==
    LET P(j) == FirstReadBeforeWrite(es, j, "indexed")
        Rec(j) == [index |-> KeyAt(es, j).key, value |-> es[j].value, line |-> j - 1]
    IN  Collect(es, P, Rec)

\* ------------------------------------------------------------------ claims

\* C1: analyze_registers emits a device-controlled record at a Read of a
\* key exactly when an earlier Read of the key exists, the most recent one
\* returned a different value and no Write to the key lies between the two;
\* the record carries the earlier value, the new value and the Read's
\* position.  The trace [Write 0x8 0x1, Read 0x8 0x1, Read 0x8 0x2] yields
\* exactly the one record (0x8, 0x1, 0x2).
C1_DeviceControlledIff ==
    script = "scripty2" =>
        /\ device_controlled_direct = ExpectedDcDirect(entries)
        /\ device_controlled_indexed = ExpectedDcIndexed(entries)
        /\ entries = <<Entry("Write", 8, 1, 4), Entry("Read", 8, 1, 4),
                       Entry("Read", 8, 2, 4)>>
           => /\ device_controlled_direct =
                    <<[offset |-> 8, old_value |-> Some(1), new_value |-> 2,
                       line |-> 2]>>
              /\ device_controlled_indexed = <<>>

\* The scenario of C1, ended with its one record.
C1_Witness ==
    /\ script = "scripty2"
    /\ entries = <<Entry("Write", 8, 1, 4), Entry("Read", 8, 1, 4),
                   Entry("Read", 8, 2, 4)>>
    /\ Len(device_controlled_direct) = 1

\* C2: analyze_registers holds a read-before-write record for a key exactly
\* when the key is read and its first Read comes before its first Write (or
\* it is never written); the record carries the value and position of that
\* first Read.  The trace [Read 0x8 0x1] yields one record for direct key
\* 0x8 with value 0x1 and no device-controlled record.
C2_ReadBeforeWriteIff ==
    script = "scripty2" =>
        /\ read_before_write_direct = ExpectedRbwDirect(entries)
        /\ read_before_write_indexed = ExpectedRbwIndexed(entries)
        /\ entries = <<Entry("Read", 8, 1, 4)>>
           => /\ read_before_write_direct = <<[offset |-> 8, value |-> 1, line |-> 0]>>
              /\ read_before_write_indexed = <<>>
              /\ device_controlled_direct = <<>>
              /\ device_controlled_indexed = <<>>

\* A key written first and read later (no record), after the scenario's
\* kind of key (read first, one record).
C2_Witness ==
    /\ script = "scripty2"
    /\ \E j \in 1..Len(entries) :
          /\ entries[j].op = "Read"
          /\ KeyAt(entries, j).scheme = "indexed"
          /\ SameKeyBefore(entries, j, "Write") # {}
    /\ \E j \in 1..Len(entries) : FirstReadBeforeWrite(entries, j, "direct")
    /\ Len(read_before_write_direct) = 1
    /\ read_before_write_indexed = <<>>

\* C3: each read-before-write list holds at most one record per key, and
\* the reported set of a scheme is the set of keys in that scheme's list.
C3_OneRecordPerKey ==
    script = "scripty2" =>
        /\ \A a, b \in 1..Len(read_before_write_indexed) :
              read_before_write_indexed[a].index = read_before_write_indexed[b].index
                  => a = b
        /\ \A a, b \in 1..Len(read_before_write_direct) :
              read_before_write_direct[a].offset = read_before_write_direct[b].offset
                  => a = b
        /\ reported_indexed_rbw =
              {read_before_write_indexed[a].index :
                  a \in 1..Len(read_before_write_indexed)}
        /\ reported_direct_rbw =
              {read_before_write_direct[a].offset :
                  a \in 1..Len(read_before_write_direct)}

\* Repeated Reads of never-written keys, in both schemes, one record each.
C3_Witness ==
    /\ script = "scripty2"
    /\ Cardinality({j \in 1..Len(entries) :
          entries[j].op = "Read" /\ KeyAt(entries, j).scheme = "indexed"}) >= 2
    /\ \A j \in 1..Len(entries) :
          entries[j].op = "Write" => entries[j].offset = IndexOffset
    /\ Len(read_before_write_indexed) = 1
    /\ reported_indexed_rbw # {}

\* The positions before j of Writes to the offset of the event at j.
WritesBefore(es, j) ==
    {p \in 1..(j - 1) : es[p].op = "Write" /\ es[p].offset = es[j].offset}

\* The value last written to the offset of the event at j before j: None,
\* or Some(that value).
PreviousWritten(es, j) ==
    IF WritesBefore(es, j) = {} THEN None
    ELSE Some(es[Latest(WritesBefore(es, j))].value)

\* The Writes to off that differ from the Write to off before them.
ExpectedChanges(es, off) ==
    LET P(j) == /\ es[j].op = "Write"
                /\ es[j].offset = off
                /\ PreviousWritten(es, j) # Some(es[j].value)
        Rec(j) == [index |-> j - 1, old |-> PreviousWritten(es, j), new |-> es[j].value]
    IN  Collect(es, P, Rec)

\* C4: in analyze_log, all_changes[offset] holds, in trace order, exactly
\* the Writes to the offset whose value differs from the preceding Write to
\* the same offset (the first Write always counts, old value absent), each
\* with its position, the previous written value and the written value.
C4_ChangeLists ==
    script = "scripty" =>
        /\ DOMAIN all_changes = {entries[j].offset : j \in 1..Len(entries)}
        /\ \A off \in DOMAIN all_changes :
              all_changes[off] = ExpectedChanges(entries, off)

\* Three Writes to one offset, the second repeating the first: two records.
C4_Witness ==
    /\ script = "scripty"
    /\ \E off \in DOMAIN all_changes :
          /\ Cardinality({j \in 1..Len(entries) :
                entries[j].op = "Write" /\ entries[j].offset = off}) = 3
          /\ Len(all_changes[off]) = 2
          /\ all_changes[off][1].old = None
          /\ all_changes[off][2].old = Some(all_changes[off][1].new)

\* C5: in analyze_log, the timeline of a trace of n events has n entries,
\* and entry i has index i and the operation, offset and value of event i.
C5_TimelineMatchesTrace ==
    script = "scripty" =>
        /\ Len(timeline) = Len(entries)
        /\ \A j \in 1..Len(timeline) :
              /\ timeline[j].index = j - 1
              /\ timeline[j].op = entries[j].op
              /\ timeline[j].offset = entries[j].offset
              /\ timeline[j].value = entries[j].value

\* A timeline of Reads and Writes over several offsets.
C5_Witness ==
    /\ script = "scripty"
    /\ Len(timeline) >= 3
    /\ {timeline[j].op : j \in 1..Len(timeline)} = {"Read", "Write"}
    /\ Cardinality({timeline[j].offset : j \in 1..Len(timeline)}) >= 2

\* The data Writes made after an index Write, with the index selected.
ExpectedPairs(es) ==
    LET P(j) == /\ es[j].op = "Write"
                /\ es[j].offset = DataOffset
                /\ IndexWritesBefore(es, j) # {}
        Rec(j) == [index |-> j - 1, reg_select |-> Held(SelectedIndex(es, j)),
                   data_value |-> es[j].value]
    IN  Collect(es, P, Rec)

\* A pair record without its data_changed flag.
PairOf(r) == [index |-> r.index, reg_select |-> r.reg_select, data_value |-> r.data_value]

\* C6: in analyze_log, every Write to 0x4 after at least one Write to 0x0
\* produces exactly one pair record, with reg_select the value of the most
\* recent Write to 0x0 and data_value the written value; a Write to 0x4
\* before every Write to 0x0, Reads, and Writes to other offsets produce none.
C6_PairPerDataWrite ==
    script = "scripty" =>
        [k \in 1..Len(pairs_0x0_0x4) |-> PairOf(pairs_0x0_0x4[k])] = ExpectedPairs(entries)

\* A data Write before any index Write (no pair), then two data Writes
\* under one index Write (two pairs with one reg_select).
C6_Witness ==
    /\ script = "scripty"
    /\ Len(entries) >= 1
    /\ entries[1].op = "Write" /\ entries[1].offset = DataOffset
    /\ Len(pairs_0x0_0x4) = 2
    /\ pairs_0x0_0x4[1].reg_select = pairs_0x0_0x4[2].reg_select
    /\ pairs_0x0_0x4[1].index = 2

\* The positions before j of data Writes made under the index selected at j.
DataWritesUnderSameIndex(es, j) ==
    {p \in 1..(j - 1) : /\ es[p].op = "Write"
                        /\ es[p].offset = DataOffset
                        /\ SelectedIndex(es, p) = SelectedIndex(es, j)}

\* C7 as stated: data_changed is true iff the written value differs from
\* the last data value written while the same index was selected (true if
\* that index was never written through before).
C7_ChangedPerIndex ==
    script = "scripty" =>
        \A k \in 1..Len(pairs_0x0_0x4) :
            LET j == pairs_0x0_0x4[k].index + 1
                prev == DataWritesUnderSameIndex(entries, j)
            IN  pairs_0x0_0x4[k].data_changed =
                    (prev = {} \/ entries[Latest(prev)].value # entries[j].value)

\* C7 amended: data_changed is true iff the written value differs from the
\* value of the most recent earlier Write to 0x4, whichever index was
\* selected then (true if 0x4 was never written before).
C7_ChangedPerOffset ==
    script = "scripty" =>
        \A k \in 1..Len(pairs_0x0_0x4) :
            LET j == pairs_0x0_0x4[k].index + 1
            IN  pairs_0x0_0x4[k].data_changed =
                    (PreviousWritten(entries, j) # Some(entries[j].value))

\* A first data Write through an index that repeats the value written
\* through another index: not marked changed.
C7_Witness ==
    /\ script = "scripty"
    /\ \E k \in 1..Len(pairs_0x0_0x4) :
          /\ ~pairs_0x0_0x4[k].data_changed
          /\ DataWritesUnderSameIndex(entries, pairs_0x0_0x4[k].index + 1) = {}
          /\ pairs_0x0_0x4[k].reg_select # pairs_0x0_0x4[1].reg_select

\* The trace of the pairing scenario.
PairingTrace ==
    <<Entry("Write", IndexOffset, 5, 4), Entry("Write", DataOffset, 10, 4),
      Entry("Write", DataOffset, 10, 4), Entry("Write", IndexOffset, 6, 4),
      Entry("Write", DataOffset, 20, 4)>>

\* C8: the Writes 0x0<-5, 0x4<-10, 0x4<-10, 0x0<-6, 0x4<-20 produce exactly
\* the pairs (5, 10, changed), (5, 10, unchanged), (6, 20, changed).
C8_PairingScenario ==
    (script = "scripty" /\ entries = PairingTrace) =>
        [k \in 1..Len(pairs_0x0_0x4) |->
            <<pairs_0x0_0x4[k].reg_select, pairs_0x0_0x4[k].data_value,
              pairs_0x0_0x4[k].data_changed>>]
        = <<<<5, 10, TRUE>>, <<5, 10, FALSE>>, <<6, 20, TRUE>>>>

\* The scenario's trace, analysed.
C8_Witness ==
    /\ script = "scripty"
    /\ entries = PairingTrace
    /\ Len(pairs_0x0_0x4) = 3
    /\ Len(timeline) = 5

\* C9: the selected index of either analyzer is the value of the most
\* recent Write to 0x0, absent if there is none; Reads of 0x0 and accesses
\* to other offsets leave it alone.
C9_SelectedIndexIsLastIndexWrite ==
    /\ script = "scripty2" =>
          current_index = SelectedIndex(entries, Len(entries) + 1)
    /\ script = "scripty" =>
          /\ (last_0x0_write = None)
                <=> (IndexWritesBefore(entries, Len(entries) + 1) = {})
          /\ last_0x0_write # None =>
                /\ Some(Held(last_0x0_write).value)
                      = SelectedIndex(entries, Len(entries) + 1)
                /\ Held(last_0x0_write).index
                      = Latest(IndexWritesBefore(entries, Len(entries) + 1)) - 1

\* An index Write overwritten by a second one, then a Read of 0x0
\* returning another value.
C9_Witness ==
    /\ script = "scripty2"
    /\ Len(entries) >= 3
    /\ entries[1].op = "Write" /\ entries[1].offset = IndexOffset
    /\ entries[2].op = "Write" /\ entries[2].offset = IndexOffset
    /\ entries[2].value # entries[1].value
    /\ entries[3].op = "Read" /\ entries[3].offset = IndexOffset
    /\ entries[3].value # entries[2].value
    /\ current_index = Some(entries[2].value)

\* C10: in analyze_registers, a Read or Write at 0x4 before any Write to
\* 0x0 changes no state table and produces no record, in either scheme.
C10_DataBeforeIndexChangesNothing ==
    [][(/\ script = "scripty2"
        /\ Len(entries') = Len(entries) + 1
        /\ entries'[Len(entries')].offset = DataOffset
        /\ IndexWritesBefore(entries', Len(entries')) = {})
       => UNCHANGED regVars]_vars

\* A Read and a Write at 0x4 with no index selected, after a direct Read:
\* the indexed tables are still empty.
C10_Witness ==
    /\ script = "scripty2"
    /\ Len(entries) = 3
    /\ entries[1].op = "Read" /\ entries[1].offset = 8
    /\ entries[2].op = "Read" /\ entries[2].offset = DataOffset
    /\ entries[3].op = "Write" /\ entries[3].offset = DataOffset
    /\ indexed_state = EmptyDict
    /\ indexed_written = {}
    /\ read_before_write_indexed = <<>>
    /\ Len(read_before_write_direct) = 1

\* C11: on the empty event sequence both analyzers return empty results:
\* analyze_log an empty timeline, no change lists, no pairs and an empty
\* current state; analyze_registers four empty record lists.
C11_EmptyTraceEmptyResults ==
    entries = <<>> =>
        /\ script = "scripty" =>
              /\ timeline = <<>>
              /\ DOMAIN all_changes = {}
              /\ pairs_0x0_0x4 = <<>>
              /\ DOMAIN current_state = {}
        /\ script = "scripty2" =>
              /\ read_before_write_indexed = <<>>
              /\ read_before_write_direct = <<>>
              /\ device_controlled_indexed = <<>>
              /\ device_controlled_direct = <<>>

\* analyze_log's result for the empty sequence.
C11_Witness ==
    /\ script = "scripty"
    /\ entries = <<>>
    /\ LogState = analyze_log(<<>>)
    /\ Len(timeline) = 0

\* C19: in analyze_log, current_state[offset] is the value of the most
\* recent Write to the offset, None if the offset was only read; a Read
\* never changes current_state; and the old_value of a timeline entry is
\* the value of the most recent Write to its offset before it (None if none).
C19_CurrentStateIsLastWrite ==
    script = "scripty" =>
        /\ DOMAIN current_state = {entries[j].offset : j \in 1..Len(entries)}
        /\ \A j \in 1..Len(entries) :
              /\ timeline[j].old_value = PreviousWritten(entries, j)
              /\ (\A q \in (j + 1)..Len(entries) :
                     ~(entries[q].op = "Write" /\ entries[q].offset = entries[j].offset))
                 => current_state[entries[j].offset] =
                        (IF entries[j].op = "Write" THEN Some(entries[j].value)
                         ELSE PreviousWritten(entries, j))

\* One offset only read (None) and another written and then read back
\* with a different value (the written value stays current).
C19_Witness ==
    /\ script = "scripty"
    /\ Len(entries) = 3
    /\ entries[1].op = "Read" /\ entries[1].offset = 8
    /\ entries[2].op = "Write" /\ entries[2].offset = DataOffset
    /\ entries[3].op = "Read" /\ entries[3].offset = DataOffset
    /\ entries[3].value # entries[2].value
    /\ current_state[8] = None
    /\ current_state[DataOffset] = Some(entries[2].value)
    /\ timeline[3].old_value = Some(entries[2].value)

\* C20: in analyze_log the timeline and the change lists agree: an entry
\* has changed = true iff all_changes of its offset holds a record with the
\* same index, old value and new value; entries of Reads, and of any event
\* whose operation is not 'Write', have changed = false.
C20_TimelineAgreesWithChanges ==
    script = "scripty" =>
        /\ \A j \in 1..Len(timeline) :
              LET t == timeline[j]
                  recs == all_changes[t.offset]
              IN  /\ t.changed <=>
                        \E k \in 1..Len(recs) :
                            recs[k] = [index |-> t.index, old |-> t.old_value,
                                       new |-> t.value]
                  /\ t.op # "Write" => ~t.changed
        /\ \A off \in DOMAIN all_changes : \A k \in 1..Len(all_changes[off]) :
              \E j \in 1..Len(timeline) :
                  /\ timeline[j].index = all_changes[off][k].index
                  /\ timeline[j].offset = off
                  /\ timeline[j].changed

\* A Write, then a Read and a 'write' of the same offset that both carry
\* another value than the current one: neither is marked changed.
C20_Witness ==
    /\ script = "scripty"
    /\ Len(timeline) = 3
    /\ timeline[1].op = "Write" /\ timeline[1].changed
    /\ timeline[2].op = "Read" /\ timeline[2].offset = timeline[1].offset
    /\ Some(timeline[2].value) # timeline[2].old_value /\ ~timeline[2].changed
    /\ timeline[3].op = "write" /\ timeline[3].offset = timeline[1].offset
    /\ Some(timeline[3].value) # timeline[3].old_value /\ ~timeline[3].changed
    /\ Len(all_changes[timeline[1].offset]) = 1

\* The trace with every length field replaced by w.
WithLength(es, w) ==
    [j \in 1..Len(es) |-> Entry(es[j].op, es[j].offset, es[j].value, w)]

\* C12: the length field never influences analysis: the timeline, change
\* lists, pair records, read-before-write records and device-controlled
\* records of a trace are those of the same trace with every length
\* replaced by one fixed width, so two traces that differ only in their
\* length fields have identical results.
C12_LengthIgnored ==
    /\ script = "scripty" =>
          LET r == analyze_log(WithLength(entries, 4))
          IN  /\ timeline = r.timeline
              /\ all_changes = r.all_changes
              /\ pairs_0x0_0x4 = r.pairs_0x0_0x4
    /\ script = "scripty2" =>
          LET r == analyze_registers(WithLength(entries, 4))
          IN  /\ read_before_write_indexed = r.read_before_write_indexed
              /\ read_before_write_direct = r.read_before_write_direct
              /\ device_controlled_indexed = r.device_controlled_indexed
              /\ device_controlled_direct = r.device_controlled_direct

\* A trace of accesses of two widths that produces a pair record and a
\* change that a narrow Write made.
C12_Witness ==
    /\ script = "scripty"
    /\ {entries[j].length : j \in 1..Len(entries)} = {2, 4}
    /\ Len(pairs_0x0_0x4) >= 1
    /\ \E j \in 1..Len(entries) : entries[j].length = 2 /\ timeline[j].changed


\* ---------------------------------------------------------------- C15
\* A list of records is in ascending order of its sort keys.
AscendingKeys(keys) ==
    \A p, q \in 1..Len(keys) : p < q => keys[p] <= keys[q]

\* Two lists hold the same records, each as often as the other.
SameRecords(a, b) ==
    /\ Len(a) = Len(b)
    /\ \A r \in 1..Len(a) :
          Cardinality({p \in 1..Len(a) : a[p] = a[r]})
              = Cardinality({p \in 1..Len(b) : b[p] = a[r]})

\* C15 as stated: the read-before-write lists that analyze_registers returns
\* are sorted in ascending order of key, for every trace.
C15_ReturnedListsSorted ==
    script = "scripty2" =>
        /\ AscendingKeys(IndexKeys(read_before_write_indexed))
        /\ AscendingKeys(OffsetKeys(read_before_write_direct))

\* C15 as the code has it: the read-before-write rows of the written report
\* (Section 1 and the initialisation lines of Section 3) hold the records of
\* the returned lists in ascending order of key, while the returned lists
\* themselves are in the order in which the reads occurred.
C15_ReportRowsSorted ==
    /\ script = "scripty2" =>
          /\ AscendingKeys([p \in 1..Len(read_before_write_indexed) |->
                               read_before_write_indexed[p].line])
          /\ AscendingKeys([p \in 1..Len(read_before_write_direct) |->
                               read_before_write_direct[p].line])
    /\ report # <<>> =>
          /\ AscendingKeys(IndexKeys(report[1].rbw_indexed))
          /\ AscendingKeys(OffsetKeys(report[1].rbw_direct))
          /\ SameRecords(report[1].rbw_indexed, read_before_write_indexed)
          /\ SameRecords(report[1].rbw_direct, read_before_write_direct)
          /\ AscendingKeys([r \in 1..Len(report[1].init_indexed) |->
                               report[1].init_indexed[r].reg])
          /\ AscendingKeys([r \in 1..Len(report[1].init_direct) |->
                               report[1].init_direct[r].reg])

\* A report was written for a trace whose returned indexed list is out of key
\* order, so the report's rows are a proper rearrangement of it.
C15_Witness ==
    /\ report # <<>>
    /\ Len(read_before_write_indexed) >= 2
    /\ read_before_write_indexed[1].index > read_before_write_indexed[2].index
    /\ Len(read_before_write_direct) >= 1
    /\ report[1].rbw_indexed # read_before_write_indexed
    /\ report[1].rbw_indexed[1] = read_before_write_indexed[2]

\* ---------------------------------------------------------------- C18
\* The records of `changes` that belong to register `key`, in list order.
ChangesOf(changes, key) ==
    LET OfKey(change) == SummaryKey(change) = key
    IN  SelectSeq(changes, OfKey)

\* The change counts of a summary, added up over `keys`.
RECURSIVE TotalChanges(_, _)
TotalChanges(summary, keys) ==
    IF keys = {} THEN 0
    ELSE LET k == CHOOSE x \in keys : TRUE
         IN  Len(summary[k].changes) + TotalChanges(summary, keys \ {k})

\* The summary of `changes` partitions them by key.
Partitions(changes) ==
    LET summary == summarize_device_controlled(changes)
    IN  /\ DOMAIN summary = {SummaryKey(changes[p]) : p \in 1..Len(changes)}
        /\ \A key \in DOMAIN summary :
              /\ summary[key].changes = ChangesOf(changes, key)
              /\ summary[key].unique_values =
                    UNION {{changes[p].old_value, Some(changes[p].new_value)} :
                              p \in {q \in 1..Len(changes) :
                                        SummaryKey(changes[q]) = key}}
        /\ TotalChanges(summary, DOMAIN summary) = Len(changes)

\* C18: summarize_device_controlled partitions the device-controlled records
\* by key: each record is in exactly its own key's changes list, in original
\* order, the change counts sum to the number of records, and a key's
\* unique_values are exactly the old and new values of its records.  The
\* blocks the report prints carry these counts and values.
C18_SummaryPartitionsByKey ==
    /\ Partitions(device_controlled_indexed)
    /\ Partitions(device_controlled_direct)
    /\ report # <<>> =>
          /\ \A r \in 1..Len(report[1].dc_direct) :
                LET block == report[1].dc_direct[r]
                IN  /\ block.shown = ChangesOf(device_controlled_direct, block.key)
                    /\ block.total = Len(block.shown)
          /\ \A r \in 1..Len(report[1].dc_indexed) :
                LET block == report[1].dc_indexed[r]
                IN  /\ block.shown = ChangesOf(device_controlled_indexed, block.key)
                    /\ block.total = Len(block.shown)

\* A report was written for a trace in which two direct registers changed
\* under the device in turn, one of them twice.
C18_Witness ==
    /\ report # <<>>
    /\ Len(device_controlled_direct) >= 3
    /\ device_controlled_direct[1].offset = device_controlled_direct[3].offset
    /\ device_controlled_direct[1].offset # device_controlled_direct[2].offset
    /\ Len(report[1].dc_direct) = 2


\* ---------------------------------------------------------------- C13
\* The sample fields that are hexadecimal numbers, with the numbers they
\* denote.
Hexadecimal ==
    [field \in {"0x0", "0x1", "0x2", "0x4", "0x8", "4", "A", "10", "-0x1"} |->
        CASE field = "0x0" -> 0 [] field = "0x1" -> 1 [] field = "0x2" -> 2
          [] field = "0x4" -> 4 [] field = "0x8" -> 8 [] field = "4" -> 4
          [] field = "A" -> 10 [] field = "10" -> 16 [] field = "-0x1" -> -1]

\* A line that yields an event: at least four fields, the second to fourth
\* hexadecimal numbers, and the line neither blank nor beginning with
\* 'Operation' or '----'.
YieldsEvent(line) ==
    /\ Len(line.fields) >= 4
    /\ \A p \in 2..4 : line.fields[p] \in DOMAIN Hexadecimal
    /\ ~(~line.indent /\ line.fields[1] \in {"Operation", "Operations"})
    /\ ~(~line.indent /\ line.fields[1] \in {"----", "----------"})

\* The events of the lines that yield one, in line order, each from its own
\* line alone.
RECURSIVE EventsOf(_)
EventsOf(text) ==
    IF text = <<>> THEN <<>>
    ELSE LET line == text[Len(text)]
             rest == EventsOf(SubSeq(text, 1, Len(text) - 1))
         IN  IF YieldsEvent(line)
             THEN Append(rest, Entry(line.fields[1], Hexadecimal[line.fields[2]],
                                     Hexadecimal[line.fields[3]],
                                     Hexadecimal[line.fields[4]]))
             ELSE rest

\* The text as parse_log tests it: the first line that is not blank has lost
\* its indentation.
WithoutLeadingSpace(text) ==
    [p \in 1..Len(text) |->
        IF text[p].fields # <<>> /\ \A q \in 1..(p - 1) : text[q].fields = <<>>
        THEN Line(FALSE, text[p].fields)
        ELSE text[p]]

\* C13 as stated: parse_log returns, in line order, one event for each line
\* of the text that has at least four fields with hexadecimal second to
\* fourth fields and is not blank, a header line starting with 'Operation' or
\* a separator line starting with '----'; every other line contributes
\* nothing.
C13_OneEventPerValidLine ==
    calls # <<>> => entries = EventsOf(log_data)

\* C13 as the code has it: the same, with the lines tested for 'Operation'
\* and '----' after the text as a whole has been stripped, so that an
\* indented first line is tested without its indentation.
C13_OneEventPerValidStrippedLine ==
    calls # <<>> => entries = EventsOf(WithoutLeadingSpace(log_data))

\* parse_log has run on a text whose indented first line begins with
\* 'Operation' and carries three numbers, whose second line has a field that
\* is not a number, and whose third line is a record.
C13_Witness ==
    /\ calls # <<>>
    /\ Len(log_data) = 3
    /\ log_data[1] = Line(TRUE, <<"Operation", "0x8", "0x1", "0x4">>)
    /\ log_data[2] = Line(FALSE, <<"Read", "0x8", "0xZZ", "0x4">>)
    /\ log_data[3] = Line(FALSE, <<"Read", "4", "A", "10">>)
    /\ entries = <<Entry("Read", 4, 10, 16)>>

\* ---------------------------------------------------------------- C14
\* C14 as stated: every event parse_log returns has operation 'Read' or
\* 'Write'; a line with any other first field is skipped.
C14_OnlyReadOrWrite ==
    \A p \in 1..Len(entries) : entries[p].op \in {"Read", "Write"}

\* ---------------------------------------------------------------- C16
\* The calls main makes after loading, in order.
Pipeline == <<"parse_log", "analyze", "write_report">>

\* The error a missing or unreadable file ends in, and its console message.
InputAbsent(status) ==
    IF status = "missing"
    THEN [outcome |-> "file_not_found", wait |-> "wait_file_not_found",
          message |-> "ERROR: File not found!"]
    ELSE [outcome |-> "read_error", wait |-> "wait_read_error",
          message |-> "ERROR: exception"]

\* C16: when the trace file is missing or unreadable the run ends in an error
\* outcome (the return after the error message, or EOFError at a prompt whose
\* console input has ended) with nothing parsed, nothing analysed and no
\* report written; the calls parse, analyze, write report are made only after
\* the file was loaded, and in that order.
C16_LoadGatesPipeline ==
    /\ \E n \in 0..Len(Pipeline) : calls = SubSeq(Pipeline, 1, n)
    /\ calls # <<>> =>
          /\ file.status = "ok"
          /\ log_data = file.text
          /\ console[1] = "Loaded"
    /\ file.status \in {"missing", "unreadable"} =>
          LET error == InputAbsent(file.status)
          IN  /\ pc \in {"start", error.wait, "exit"}
              /\ pc = error.wait => outcome = "running" /\ console = <<error.message>>
              /\ pc = "exit" => outcome \in {error.outcome, "eof_error"}
              /\ outcome = error.outcome => console = <<error.message>>
              /\ console \in {<<>>, <<error.message>>}
              /\ calls = <<>>
              /\ entries = <<>>
              /\ log_data = <<>>
              /\ LogState = LogInit /\ RegState = RegInit
              /\ report = <<>>
    /\ outcome \in {"file_not_found", "read_error"} =>
          file.status \in {"missing", "unreadable"} /\ pc = "exit"
    /\ (LogState # LogInit \/ RegState # RegInit) => Len(calls) >= 2
    /\ report # <<>> => calls = Pipeline
    /\ outcome = "done" <=> report # <<>>

\* A run on an unreadable file has printed the error, waited at the prompt
\* and returned.
C16_Witness ==
    /\ file.status = "unreadable"
    /\ pc = "exit"
    /\ outcome = "read_error"
    /\ console = <<"ERROR: exception">>

\* ---------------------------------------------------------------- C17
\* The run has parsed the file and found no event.
NoEntriesFound == calls # <<>> /\ entries = <<>>

\* C17 as stated: when parsing yields no event the run ends without an
\* exception in a 'no entries' outcome, and the report states that there are
\* no entries.
C17_ReportStatesNoEntries ==
    (pc = "exit" /\ NoEntriesFound) =>
        /\ outcome = "no_entries"
        /\ report # <<>>

\* C17 as the code has it: when parsing yields no event the run prints that no
\* valid entries were found, a message that only such runs print, and waits at
\* the 'Press Enter to exit...' prompt with nothing analysed and no report
\* written; it then ends in a 'no entries' outcome that only such runs have
\* when a line arrives, and by EOFError when the console input has ended.
C17_ConsoleStatesNoEntries ==
    /\ NoEntriesFound =>
          /\ file.status = "ok"
          /\ pc \in {"wait_no_entries", "exit"}
          /\ pc = "wait_no_entries" => outcome = "running"
          /\ pc = "exit" => outcome \in {"no_entries", "eof_error"}
          /\ console = <<"Loaded", "Parsing", "ERROR: No valid entries found!">>
          /\ calls = <<"parse_log">>
          /\ LogState = LogInit /\ RegState = RegInit
          /\ report = <<>>
    /\ pc = "wait_no_entries" => NoEntriesFound
    /\ outcome = "no_entries" => (pc = "exit" /\ NoEntriesFound)
    /\ "ERROR: No valid entries found!" \in Range(console) <=> NoEntriesFound
    /\ (pc = "parsed" \/ "analyze" \in Range(calls)) => entries # <<>>

\* A run on a file of three lines, none of which is a record, has printed the
\* message, waited at the prompt and returned.
C17_Witness ==
    /\ outcome = "no_entries"
    /\ pc = "exit"
    /\ Len(log_data) = 3
    /\ log_data[3].fields # <<>>


\* ---------------------------------------------------------------- C21
\* The positions of the Reads and Writes of es on one register.
AccessesOf(es, scheme, key) ==
    {p \in 1..Len(es) : /\ KeyAt(es, p) = [scheme |-> scheme, key |-> key]
                        /\ es[p].op \in {"Read", "Write"}}

\* The registers of a scheme that es reads or writes.
KeysOf(es, scheme) ==
    {KeyAt(es, p).key : p \in {q \in 1..Len(es) : /\ KeyAt(es, q).scheme = scheme
                                                  /\ es[q].op \in {"Read", "Write"}}}

\* The state-table entry of a register after es: the value of its most recent
\* Read (None when it was never read), and whether its most recent access was
\* a Write.
EntryAfter(es, scheme, key) ==
    LET accesses == AccessesOf(es, scheme, key)
        reads == {p \in accesses : es[p].op = "Read"}
    IN  [last_read |-> IF reads = {} THEN None ELSE Some(es[Latest(reads)].value),
         write_since_read |-> es[Latest(accesses)].op = "Write"]

\* C21: in analyze_registers, every register that was read or written has a
\* state-table entry; write_since_read is true iff the most recent Read or
\* Write of the register was a Write, and last_read is the value of the most
\* recent Read of the register (each Read sets it, no Write changes it).
C21_StateTableFollowsAccesses ==
    script = "scripty2" =>
        /\ DOMAIN direct_state = KeysOf(entries, "direct")
        /\ DOMAIN indexed_state = KeysOf(entries, "indexed")
        /\ \A key \in DOMAIN direct_state :
              direct_state[key] = EntryAfter(entries, "direct", key)
        /\ \A key \in DOMAIN indexed_state :
              indexed_state[key] = EntryAfter(entries, "indexed", key)

\* A direct register was read, read again with the same value (no record),
\* and then written with another value: last_read is still the value read.
C21_Witness ==
    /\ script = "scripty2"
    /\ Len(entries) = 3
    /\ entries[1].op = "Read" /\ entries[1].offset = 8
    /\ entries[2].op = "Read" /\ entries[2].offset = 8
    /\ entries[2].value = entries[1].value
    /\ entries[3].op = "Write" /\ entries[3].offset = 8
    /\ entries[3].value # entries[1].value
    /\ device_controlled_direct = <<>>
    /\ direct_state[8] = [last_read |-> Some(entries[1].value),
                          write_since_read |-> TRUE]


\* ---------------------------------------------------------------- C25
\* A device-controlled record is well formed: its old value is present and
\* differs from its new value, and its line is the position of a Read.
WellFormedChange(es, change) ==
    /\ change.old_value # None
    /\ change.old_value # Some(change.new_value)
    /\ change.line \in 0..(Len(es) - 1)
    /\ es[change.line + 1].op = "Read"
    /\ es[change.line + 1].value = change.new_value

\* C25: in analyze_registers, a state-table entry with write_since_read
\* false has a last_read that is not None; every device-controlled record has
\* an old value that is not None and differs from the new value, and its line
\* is the position of a Read.
C25_NoChangeFromNone ==
    script = "scripty2" =>
        /\ \A key \in DOMAIN direct_state :
              ~direct_state[key].write_since_read => direct_state[key].last_read # None
        /\ \A key \in DOMAIN indexed_state :
              ~indexed_state[key].write_since_read => indexed_state[key].last_read # None
        /\ \A p \in 1..Len(device_controlled_direct) :
              WellFormedChange(entries, device_controlled_direct[p])
        /\ \A p \in 1..Len(device_controlled_indexed) :
              WellFormedChange(entries, device_controlled_indexed[p])

\* A direct register was written first (its entry has no last_read), read,
\* and read again with another value: the first Read gives no record, the
\* second gives one.
C25_Witness ==
    /\ script = "scripty2"
    /\ Len(entries) = 3
    /\ entries[1].op = "Write" /\ entries[1].offset = 8
    /\ entries[2].op = "Read" /\ entries[2].offset = 8
    /\ entries[3].op = "Read" /\ entries[3].offset = 8
    /\ entries[3].value # entries[2].value
    /\ device_controlled_direct =
          <<DcDirectRecord(8, Some(entries[2].value), entries[3].value, 2)>>


\* ---------------------------------------------------------------- C28
\* The register numbers that the direct scheme has on record.
DirectKeys ==
    DOMAIN direct_state \cup direct_written \cup reported_direct_rbw
        \cup {read_before_write_direct[p].offset : p \in 1..Len(read_before_write_direct)}
        \cup {device_controlled_direct[p].offset : p \in 1..Len(device_controlled_direct)}

\* C28: in analyze_registers, a Read or Write at offset 0x0 appends no record
\* and changes no state table, written set or reported set (it can only set
\* current_index), and neither 0x0 nor 0x4 is ever a register of the direct
\* scheme.
C28_IndexRegisterNeverClassified ==
    [][script = "scripty2" =>
          /\ (/\ Len(entries') = Len(entries) + 1
              /\ entries'[Len(entries')].offset = IndexOffset)
             => UNCHANGED <<indexed_written, direct_written,
                            read_before_write_indexed, read_before_write_direct,
                            reported_indexed_rbw, reported_direct_rbw,
                            indexed_state, direct_state,
                            device_controlled_indexed, device_controlled_direct>>
          /\ DirectKeys' \cap {IndexOffset, DataOffset} = {}]_vars

\* The index register was read twice with different values before it was
\* written, and then written: nothing is on record.
C28_Witness ==
    /\ script = "scripty2"
    /\ Len(entries) = 3
    /\ entries[1].op = "Read" /\ entries[1].offset = IndexOffset
    /\ entries[2].op = "Read" /\ entries[2].offset = IndexOffset
    /\ entries[2].value # entries[1].value
    /\ entries[3].op = "Write" /\ entries[3].offset = IndexOffset
    /\ current_index = Some(entries[3].value)
    /\ DirectKeys = {}
    /\ indexed_state = EmptyDict
    /\ read_before_write_indexed = <<>>
    /\ device_controlled_indexed = <<>>


\* ---------------------------------------------------------------- C26
\* A change list is a chain that ends in `final`: it starts from no value,
\* every record starts from the value the record before it ended with, every
\* record changes the value, and the indices increase.
IsChain(changes, final) ==
    /\ \A p \in 1..Len(changes) :
          /\ changes[p].old = (IF p = 1 THEN None ELSE Some(changes[p - 1].new))
          /\ changes[p].old # Some(changes[p].new)
          /\ p > 1 => changes[p - 1].index < changes[p].index
    /\ changes # <<>> => final = Some(changes[Len(changes)].new)

\* C26: in analyze_log, the change list of every offset is a chain (first old
\* value None, each later old value the previous record's new value, old
\* different from new, indices strictly increasing) that ends in
\* current_state[offset].
C26_ChangeListsAreChains ==
    script = "scripty" =>
        \A offset \in DOMAIN all_changes :
            IsChain(all_changes[offset], current_state[offset])

\* The data register was written with a value, with the same value again,
\* with another value and with the first value: a chain of three records.
C26_Witness ==
    /\ script = "scripty"
    /\ Len(entries) = 4
    /\ \A p \in 1..4 : entries[p].op = "Write" /\ entries[p].offset = DataOffset
    /\ entries[2].value = entries[1].value
    /\ entries[3].value # entries[2].value
    /\ entries[4].value = entries[1].value
    /\ Len(all_changes[DataOffset]) = 3
    /\ all_changes[DataOffset][2].index = 2
    /\ all_changes[DataOffset][3].old = Some(all_changes[DataOffset][2].new)


\* ---------------------------------------------------------------- C27
\* The positions before j of Writes to the data register, whatever index was
\* selected, if any.
DataWritesBefore(es, j) ==
    {p \in 1..(j - 1) : es[p].op = "Write" /\ es[p].offset = DataOffset}

\* C27: in analyze_log, the data_changed flag of every pair is the changed
\* flag of the timeline entry with the same index, and it is true iff there is
\* no earlier Write to 0x4 or the most recent earlier Write to 0x4 (under any
\* index, or before any index write) wrote another value.
C27_DataChangedIsTimelineChanged ==
    script = "scripty" =>
        \A k \in 1..Len(pairs_0x0_0x4) :
            LET pair == pairs_0x0_0x4[k]
                j == pair.index + 1
                same == {t \in 1..Len(timeline) : timeline[t].index = pair.index}
                before == DataWritesBefore(entries, j)
            IN  /\ same = {j}
                /\ pair.data_changed = timeline[j].changed
                /\ pair.data_changed <=>
                      (before = {} \/ entries[Latest(before)].value # pair.data_value)

\* A data Write made before any index write, then an index write, then a
\* data Write of the same value: the one pair is not marked changed, like its
\* timeline entry.
C27_Witness ==
    /\ script = "scripty"
    /\ Len(entries) = 3
    /\ entries[1].op = "Write" /\ entries[1].offset = DataOffset
    /\ entries[2].op = "Write" /\ entries[2].offset = IndexOffset
    /\ entries[3].op = "Write" /\ entries[3].offset = DataOffset
    /\ entries[3].value = entries[1].value
    /\ Len(pairs_0x0_0x4) = 1
    /\ ~pairs_0x0_0x4[1].data_changed
    /\ ~timeline[3].changed
    /\ timeline[1].changed


\* ---------------------------------------------------------------- C23
\* List a is the beginning of list b.
IsPrefix(a, b) == Len(a) <= Len(b) /\ SubSeq(b, 1, Len(a)) = a

\* The record lists of analyzer state `early` are the beginnings of those of
\* analyzer state `late`.
LogRecordsExtend(early, late) ==
    /\ IsPrefix(early.timeline, late.timeline)
    /\ IsPrefix(early.pairs_0x0_0x4, late.pairs_0x0_0x4)
    /\ DOMAIN early.all_changes \subseteq DOMAIN late.all_changes
    /\ \A offset \in DOMAIN early.all_changes :
          IsPrefix(early.all_changes[offset], late.all_changes[offset])

RegRecordsExtend(early, late) ==
    /\ IsPrefix(early.read_before_write_indexed, late.read_before_write_indexed)
    /\ IsPrefix(early.read_before_write_direct, late.read_before_write_direct)
    /\ IsPrefix(early.device_controlled_indexed, late.device_controlled_indexed)
    /\ IsPrefix(early.device_controlled_direct, late.device_controlled_direct)

\* C23: processing an event only appends to the record lists of either
\* analyzer, so an emitted record is never removed, moved or modified; as
\* every state holds the records of the events consumed so far, the records
\* of a prefix of a trace are a prefix of the records of the whole trace.
C23_RecordsOnlyAppended ==
    [][/\ IsPrefix(entries, entries')
       /\ LogRecordsExtend(LogState, LogState')
       /\ RegRecordsExtend(RegState, RegState')]_vars

\* analyze_log after four Writes to the data register that each change its
\* value but one: the timeline, the change list and (the index was written
\* first) the pair list have grown record by record.
C23_Witness ==
    /\ script = "scripty"
    /\ Len(entries) = 4
    /\ entries[1].op = "Write" /\ entries[1].offset = IndexOffset
    /\ \A p \in 2..4 : entries[p].op = "Write" /\ entries[p].offset = DataOffset
    /\ entries[3].value # entries[2].value
    /\ Len(timeline) = 4
    /\ Len(pairs_0x0_0x4) = 3
    /\ Len(all_changes[DataOffset]) >= 2
    /\ all_changes[DataOffset][1].index = 1


\* ---------------------------------------------------------------- C24
\* The positions of the pairs of a register select value with a data value.
PairsOf(pairs, reg, data) ==
    {p \in 1..Len(pairs) : pairs[p].reg_select = reg /\ pairs[p].data_value = data}

\* The position of the first such pair.
FirstPairOf(pairs, reg, data) ==
    CHOOSE p \in PairsOf(pairs, reg, data) : \A q \in PairsOf(pairs, reg, data) : p <= q

\* C24: reg_data_map has exactly one entry per reg_select value that occurs
\* in a pair, and the entry lists exactly the data values paired with that
\* reg_select, each once, in order of first occurrence; the report gives one
\* block per entry with these values.
C24_RegDataMapGroupsPairs ==
    LET pairs == pairs_0x0_0x4
        reg_data_map == RegDataMap(pairs)
    IN  /\ DOMAIN reg_data_map = {pairs[p].reg_select : p \in 1..Len(pairs)}
        /\ \A reg \in DOMAIN reg_data_map :
              LET data_values == reg_data_map[reg]
              IN  /\ {data_values[a] : a \in 1..Len(data_values)}
                        = {pairs[p].data_value :
                              p \in {q \in 1..Len(pairs) : pairs[q].reg_select = reg}}
                  /\ \A a, b \in 1..Len(data_values) :
                        a < b => /\ data_values[a] # data_values[b]
                                 /\ FirstPairOf(pairs, reg, data_values[a])
                                       < FirstPairOf(pairs, reg, data_values[b])
        /\ report # <<>> =>
              /\ {report[1].reg_data[r].reg : r \in 1..Len(report[1].reg_data)}
                    = DOMAIN reg_data_map
              /\ Len(report[1].reg_data) = Cardinality(DOMAIN reg_data_map)
              /\ \A r \in 1..Len(report[1].reg_data) :
                    LET block == report[1].reg_data[r]
                    IN  /\ block.shown = reg_data_map[block.reg]
                        /\ block.unique = Len(block.shown)
                        /\ block.more = 0

\* A report was written after three data writes under one index: a value, a
\* smaller value, and the first value again.
C24_Witness ==
    /\ script = "scripty"
    /\ report # <<>>
    /\ Len(pairs_0x0_0x4) = 3
    /\ pairs_0x0_0x4[1].data_value > pairs_0x0_0x4[2].data_value
    /\ pairs_0x0_0x4[3].data_value = pairs_0x0_0x4[1].data_value
    /\ Len(report[1].reg_data) = 1
    /\ report[1].reg_data[1].shown
          = <<pairs_0x0_0x4[1].data_value, pairs_0x0_0x4[2].data_value>>


\* ---------------------------------------------------------------- C22
\* From one state table and written set to the next, nothing changes for any
\* register other than those of `keys`.
OthersUnchanged(state, stateNext, written, writtenNext, keys) ==
    \A other \in (DOMAIN state \cup DOMAIN stateNext \cup written \cup writtenNext) \ keys :
        /\ other \in writtenNext <=> other \in written
        /\ other \in DOMAIN stateNext <=> other \in DOMAIN state
        /\ other \in DOMAIN state => stateNext[other] = state[other]

\* C22: in analyze_registers, an event at a direct offset leaves
\* current_index and everything of the indexed scheme unchanged; an event at
\* 0x0 or 0x4 leaves everything of the direct scheme unchanged; an event on
\* register K leaves the written flag and the state-table entry of every
\* other register of K's scheme unchanged.  Hence a Read of K that returns a
\* value other than K's previous Read, with no Write to K itself in between,
\* appends a device-controlled record whatever was written to other registers
\* in between.
C22_OnlyTargetedKeyChanges ==
    [][(script = "scripty2" /\ Len(entries') = Len(entries) + 1) =>
          LET n == Len(entries')
              target == KeyAt(entries', n)
          IN  /\ target.scheme = "direct" =>
                    UNCHANGED <<current_index, indexed_written, indexed_state,
                                read_before_write_indexed, reported_indexed_rbw,
                                device_controlled_indexed>>
              /\ entries'[n].offset \in {IndexOffset, DataOffset} =>
                    UNCHANGED <<direct_written, direct_state,
                                read_before_write_direct, reported_direct_rbw,
                                device_controlled_direct>>
              /\ OthersUnchanged(direct_state, direct_state',
                                 direct_written, direct_written',
                                 IF target.scheme = "direct" THEN {target.key} ELSE {})
              /\ OthersUnchanged(indexed_state, indexed_state',
                                 indexed_written, indexed_written',
                                 IF target.scheme = "indexed" THEN {target.key} ELSE {})
              /\ ChangedWithoutWrite(entries', n, "indexed") =>
                    Len(device_controlled_indexed') = Len(device_controlled_indexed) + 1
              /\ ChangedWithoutWrite(entries', n, "direct") =>
                    Len(device_controlled_direct') = Len(device_controlled_direct) + 1]_vars

\* Direct register 8 was read, direct register 12 was written and register 8
\* was read again with another value; then indexed register 8 was selected
\* and read twice with different values.  The Write to 12 does not hide the
\* change of direct register 8, whose entry the indexed accesses leave as it
\* was, and each scheme has its own record for its register 8.
C22_Witness ==
    /\ script = "scripty2"
    /\ Len(entries) = 6
    /\ entries[1].op = "Read" /\ entries[1].offset = 8
    /\ entries[2] = Entry("Write", 12, 1, 4)
    /\ entries[3].op = "Read" /\ entries[3].offset = 8
    /\ entries[3].value # entries[1].value
    /\ entries[4] = Entry("Write", IndexOffset, 8, 4)
    /\ entries[5].op = "Read" /\ entries[5].offset = DataOffset
    /\ entries[6].op = "Read" /\ entries[6].offset = DataOffset
    /\ entries[6].value # entries[5].value
    /\ device_controlled_direct =
          <<DcDirectRecord(8, Some(entries[1].value), entries[3].value, 2)>>
    /\ device_controlled_indexed =
          <<DcIndexedRecord(8, Some(entries[5].value), entries[6].value, 5)>>
    /\ direct_written = {12}
    /\ direct_state[12] = [last_read |-> None, write_since_read |-> TRUE]
    /\ direct_state[8] = [last_read |-> Some(entries[3].value),
                          write_since_read |-> FALSE]
    /\ indexed_written = {}

====
